---- MODULE Spec2Model ----
(***************************************************************************)
(* Model of arcfetch: the quality-gated fetch pipeline (core/pipeline.ts), *)
(* the shared browser singleton (core/playwright/manager.ts, local.ts),    *)
(* the MCP fetch_url handler that drives them (index.ts), the file backed  *)
(* reference store (core/cache.ts), the windowed batch fetch of a          *)
(* reference's links (core/fetch-links.ts), the quality score              *)
(* (utils/markdown-validator.ts) and the loading of the configuration      *)
(* (config/loader.ts, config/schema.ts).                                   *)
(*                                                                         *)
(* Text is modelled as sequences of tokens.  A token is one character, or  *)
(* one of the literal words the store writes and searches for ("title:",   *)
(* "---", ...), so that an input can contain the words the parser reacts   *)
(* to.                                                                     *)
(***************************************************************************)
EXTENDS Integers, Sequences, FiniteSets, TLC

----------------------------------------------------------------------------
(* Bounds of the model *)

\* concurrent invocations of the fetch_url handler in one process
NumCallers == 2
\* browser processes that may be launched in one behaviour
MaxLaunches == 2
\* calendar days the store's clock may advance through
MaxDay == 2
\* store operations the store client may call in one behaviour
MaxStoreOps == 4
\* links extractLinksFromCached may return for one fetchLinksFromRef call
MaxLinks == 6
\* length of the longest run of letters in a title given to slugify
MaxRun == 61
\* links and pieces of text in a body given to extractLinksFromCached
MaxParts == 3

----------------------------------------------------------------------------
(* Tokens *)

LF == "\n"
CR == "\r"
SP == " "
QUOTE == "\""
APOS == "'"
BSL == "\\"
DASH3 == "---"
\* U+2028 LINE SEPARATOR, which with U+2029 is a LineTerminator of ECMAScript
LS == "<LS>"

Lower == {"a", "b", "c"}
Upper == {"A", "B"}
Digit == {"1", "2", "3", "4", "5", "6", "7", "8"}

\* String.prototype.toLowerCase on one token
toLowerCase(c) == IF c = "A" THEN "a" ELSE IF c = "B" THEN "b" ELSE c

\* \s of a regular expression, and what trim() removes
IsWhitespace(c) == c \in {SP, LF, CR, LS}
\* where ^ and $ of a regular expression with the m flag match, and what . skips
IsLineTerminator(c) == c \in {LF, CR, LS}

Max(S) == CHOOSE x \in S : \A y \in S : y <= x
Min(S) == CHOOSE x \in S : \A y \in S : x <= y

\* s.slice(from) for a 1-based first index
Drop(s, from) == SubSeq(s, from, Len(s))

\* the elements of s that satisfy Keep, in order
RECURSIVE RemoveAll(_, _)
RemoveAll(s, bad) ==
  IF s = <<>> THEN <<>>
  ELSE IF Head(s) \in bad THEN RemoveAll(Tail(s), bad)
  ELSE <<Head(s)>> \o RemoveAll(Tail(s), bad)

\* String.prototype.trim
RECURSIVE TrimStart(_)
TrimStart(s) ==
  IF s # <<>> /\ IsWhitespace(Head(s)) THEN TrimStart(Tail(s)) ELSE s

RECURSIVE TrimEnd(_)
TrimEnd(s) ==
  IF s # <<>> /\ IsWhitespace(s[Len(s)]) THEN TrimEnd(SubSeq(s, 1, Len(s) - 1)) ELSE s

trim(s) == TrimEnd(TrimStart(s))

----------------------------------------------------------------------------
(* core/cache.ts: pure parts *)

\* title.toLowerCase().replace(/[^a-z0-9]+/g, '-'): every run of tokens that
\* are not a lowercase letter or a digit becomes one '-'
RECURSIVE CollapseNonAlnum(_, _)
CollapseNonAlnum(s, inRun) ==
  IF s = <<>> THEN <<>>
  ELSE LET c == toLowerCase(Head(s)) IN
       IF c \in Lower \cup Digit
       THEN <<c>> \o CollapseNonAlnum(Tail(s), FALSE)
       ELSE IF inRun THEN CollapseNonAlnum(Tail(s), TRUE)
       ELSE <<"-">> \o CollapseNonAlnum(Tail(s), TRUE)

\* .replace(/^-|-$/g, ''): one leading and one trailing '-' are removed
StripEdgeDashes(s) ==
  LET a == IF s # <<>> /\ Head(s) = "-" THEN Tail(s) ELSE s
  IN IF a # <<>> /\ a[Len(a)] = "-" THEN SubSeq(a, 1, Len(a) - 1) ELSE a

SlugCap == 60

slugify(title) ==
  LET s == StripEdgeDashes(CollapseNonAlnum(title, FALSE))
  IN SubSeq(s, 1, IF Len(s) < SlugCap THEN Len(s) ELSE SlugCap)

\* value.replace(/"/g, '\\"')
RECURSIVE EscapeQuotes(_)
EscapeQuotes(s) ==
  IF s = <<>> THEN <<>>
  ELSE IF Head(s) = QUOTE THEN <<BSL, QUOTE>> \o EscapeQuotes(Tail(s))
  ELSE <<Head(s)>> \o EscapeQuotes(Tail(s))

\* url.replace(/[\r\n]/g, '')
sanitizedUrl(url) == RemoveAll(url, {CR, LF})

\* the text saveToTemp writes: header block, blank line, body
fileContent(title, url, today, query, content) ==
  <<DASH3, LF>>
  \o <<"title:", SP, QUOTE>> \o EscapeQuotes(title) \o <<QUOTE, LF>>
  \o <<"source_url:", SP>> \o sanitizedUrl(url) \o <<LF>>
  \o <<"fetched_date:", SP, today, LF>>
  \o <<"type:", SP, "web", LF>>
  \o <<"status:", SP, "temporary", LF>>
  \o (IF query # <<>>
      THEN <<"query:", SP, QUOTE>> \o EscapeQuotes(query) \o <<QUOTE, LF>>
      ELSE <<>>)
  \o <<DASH3, LF, LF>>
  \o content

\* content.match(/^---\n([\s\S]*?)\n---/): the positions k of a "\n---" that
\* can close a block opened by a leading "---\n"
FrontmatterEnds(text) ==
  IF Len(text) >= 2 /\ text[1] = DASH3 /\ text[2] = LF
  THEN {k \in 3..(Len(text) - 1) : text[k] = LF /\ text[k + 1] = DASH3}
  ELSE {}

hasFrontmatter(text) == FrontmatterEnds(text) # {}

\* frontmatterMatch[1]: the lazy group stops at the first closing "\n---"
frontmatter(text) == SubSeq(text, 3, Min(FrontmatterEnds(text)) - 1)

\* frontmatter.match(new RegExp(`^${key}:\\s*(.+)$`, 'm')), then
\* .trim().replace(/^["']|["']$/g, '').trim(); '' when nothing matches
getValue(fm, key) ==
  LET starts == {i \in 1..Len(fm) :
                   /\ fm[i] = key
                   /\ (i = 1 \/ IsLineTerminator(fm[i - 1]))
                   /\ \E j \in (i + 1)..Len(fm) : ~IsWhitespace(fm[j])}
  IN IF starts = {} THEN <<>>
     ELSE LET i == Min(starts)
              j == Min({n \in (i + 1)..Len(fm) : ~IsWhitespace(fm[n])})
              ends == {n \in j..Len(fm) : IsLineTerminator(fm[n])}
              e == IF ends = {} THEN Len(fm) ELSE Min(ends) - 1
              raw == trim(SubSeq(fm, j, e))
              a == IF raw # <<>> /\ Head(raw) \in {QUOTE, APOS} THEN Tail(raw) ELSE raw
              b == IF a # <<>> /\ a[Len(a)] \in {QUOTE, APOS}
                   THEN SubSeq(a, 1, Len(a) - 1) ELSE a
          IN trim(b)

\* the keys of the header fields saveToTemp writes
HeaderKeys == {"title:", "source_url:", "fetched_date:", "type:", "status:", "query:"}

\* the positions in a header block where getValue's ^key: finds a field: a key
\* at the start of the block or right after a line terminator
fieldLines(fm) ==
  {i \in 1..Len(fm) : fm[i] \in HeaderKeys /\ (i = 1 \/ IsLineTerminator(fm[i - 1]))}

\* the header fields a reader of the file finds, by key
headerFields(text) == [key \in HeaderKeys |-> getValue(frontmatter(text), key)]

\* content.substring(frontmatterMatch[0].length) for /^---\n[\s\S]*?\n---\n*/:
\* the text after the closing "---" and the line feeds that follow it; the
\* whole text when there is no header block
body(text) ==
  IF ~hasFrontmatter(text) THEN text
  ELSE LET close == Min(FrontmatterEnds(text)) + 1
           rest == {n \in (close + 1)..Len(text) : text[n] # LF}
       IN IF rest = {} THEN <<>> ELSE Drop(text, Min(rest))

\* new Date().toISOString().split('T')[0] for each day of the model's clock
Days == <<"2026-02-06", "2026-02-07", "2026-02-08", "2026-02-09">>

\* position of a fetched_date value in the order localeCompare gives ISO dates
DayRank(value) ==
  IF \E d \in 1..Len(Days) : value = <<Days[d]>>
  THEN CHOOSE d \in 1..Len(Days) : value = <<Days[d]>>
  ELSE 0

\* the CachedReference listCached builds for one file of the temp directory
reference(name, text) ==
  LET fm == frontmatter(text)
  IN [refId |-> name,
      title |-> getValue(fm, "title:"),
      url |-> getValue(fm, "source_url:"),
      filepath |-> name,
      fetchedDate |-> getValue(fm, "fetched_date:"),
      query |-> getValue(fm, "query:")]

\* listCached(config).references as a set: files without a header block are
\* skipped
listCached(dir) ==
  {reference(name, dir[name]) : name \in {n \in DOMAIN dir : hasFrontmatter(dir[n])}}

\* findByUrl: references.find((r) => r.url === url).  The list is sorted by
\* fetchedDate, newest first; the order among files of one date is the order
\* readdirSync returns, which the platform chooses, so every match with the
\* newest date is a possible answer.
findByUrlMatches(dir, url) ==
  LET hits == {r \in listCached(dir) : r.url = url}
  IN {r \in hits : \A o \in hits : DayRank(o.fetchedDate) <= DayRank(r.fetchedDate)}

\* findCached: references.find((r) => r.refId === refId); file names are unique
findCachedMatches(dir, refId) == {r \in listCached(dir) : r.refId = refId}

NoRef == [refId |-> <<"?">>, title |-> <<>>, url |-> <<>>, filepath |-> <<"?">>,
          fetchedDate |-> <<>>, query |-> <<>>]

\* writeFile that does not replace a file that holds text
writeFileKeepsStored(dir, name, text) ==
  [n \in DOMAIN dir \cup {name} |->
     IF n \in DOMAIN dir /\ dir[n] # <<>> THEN dir[n]
     ELSE IF n = name THEN text ELSE dir[n]]

\* the file system after writeFile(name, text)
writeFile(dir, name, text) ==
  [n \in DOMAIN dir \cup {name} |-> IF n = name THEN text ELSE dir[n]]

unlinkSyncKeepsFile(dir, name) == dir

\* the file system after unlinkSync(name)
unlinkSync(dir, name) == [n \in DOMAIN dir \ {name} |-> dir[n]]

\* saveToTemp up to its await: the SaveResult it returns at once when the url
\* is stored and refetch is off, else the write it starts and the SaveResult
\* that follows the write.  existing is the answer of findByUrl (NoRef: null).
saveToTemp(existing, title, url, content, query, refetch, today) ==
  IF existing # NoRef /\ ~refetch
  THEN [write |-> FALSE, refId |-> existing.refId, filepath |-> existing.filepath,
        alreadyExists |-> TRUE, text |-> <<>>]
  ELSE [write |-> TRUE, refId |-> slugify(title),
        filepath |-> IF existing # NoRef /\ refetch THEN existing.filepath
                     ELSE slugify(title),
        alreadyExists |-> FALSE,
        text |-> fileContent(title, url, Days[today], query, content)]

findByUrlAnswers(dir, url) ==
  IF findByUrlMatches(dir, url) = {} THEN {NoRef} ELSE findByUrlMatches(dir, url)

NoSave == [write |-> FALSE, refId |-> <<"?">>, filepath |-> <<"?">>,
           alreadyExists |-> FALSE, text |-> <<>>]

----------------------------------------------------------------------------
(* config/schema.ts, core/pipeline.ts: pure parts *)

\* quality scores validateMarkdown may return for a fetched page
Scores == {50, 60, 70, 85, 90}

\* the quality section of a FetchiConfig: the schema bounds both numbers to
\* 0..100 and does not relate them
Configs == {[minScore |-> 60, jsRetryThreshold |-> 85],
            [minScore |-> 85, jsRetryThreshold |-> 60]}

\* config/defaults.ts
DefaultConfig == [minScore |-> 60, jsRetryThreshold |-> 85]

\* the urls the handler is called with: http(s), another scheme, no scheme
HandlerUrls == {<<"https://", "a">>, <<"ftp://", "a">>, <<"a">>}

\* titles Readability may report for a page
PageTitles == {<<"A">>, <<"b">>}

\* fetch() takes http and https urls and rejects every other input
fetchAccepts(url) == url # <<>> /\ Head(url) \in {"http://", "https://"}

NoResult == [success |-> FALSE, score |-> -1, usedPlaywright |-> FALSE,
             playwrightReason |-> "", error |-> "", suggestion |-> FALSE,
             title |-> <<>>]

\* routeSimple accepting only a score above jsRetryThreshold
routeSimpleStrict(score, config) ==
  IF score > config.jsRetryThreshold THEN "accept"
  ELSE IF score >= config.minScore THEN "quality_marginal"
  ELSE "quality_too_low"

\* fetchUrl's decision on the score of the simple fetch
routeSimple(score, config) ==
  IF score >= config.jsRetryThreshold THEN "accept"
  ELSE IF score >= config.minScore THEN "quality_marginal"
  ELSE "quality_too_low"

\* the FetchResult fetchUrl builds from the simple fetch
simpleResult(score, title) ==
  [success |-> TRUE, score |-> score, usedPlaywright |-> FALSE,
   playwrightReason |-> "", error |-> "", suggestion |-> FALSE, title |-> title]

\* tryPlaywright without its check against minScore
tryPlaywrightNoGate(reason, browserError, extractError, score, title, config) ==
  IF browserError
  THEN [NoResult EXCEPT !.error = "Playwright fetch failed"]
  ELSE IF extractError
  THEN [NoResult EXCEPT !.error = "Could not extract article content"]
  ELSE [success |-> TRUE, score |-> score, usedPlaywright |-> TRUE,
        playwrightReason |-> reason, error |-> "", suggestion |-> FALSE,
        title |-> title]

\* tryPlaywright rejecting a score equal to minScore
tryPlaywrightStrictGate(reason, browserError, extractError, score, title, config) ==
  IF browserError
  THEN [NoResult EXCEPT !.error = "Playwright fetch failed"]
  ELSE IF extractError
  THEN [NoResult EXCEPT !.error = "Could not extract article content"]
  ELSE IF score <= config.minScore
  THEN [NoResult EXCEPT !.error = "Content quality too low", !.score = score,
                        !.suggestion = TRUE, !.usedPlaywright = TRUE,
                        !.playwrightReason = reason]
  ELSE [success |-> TRUE, score |-> score, usedPlaywright |-> TRUE,
        playwrightReason |-> reason, error |-> "", suggestion |-> FALSE,
        title |-> title]

\* tryPlaywright once fetchWithBrowser has returned: browserError is the
\* error field of its result, extractError that of processHtmlToMarkdown
tryPlaywright(reason, browserError, extractError, score, title, config) ==
  IF browserError
  THEN [NoResult EXCEPT !.error = "Playwright fetch failed"]
  ELSE IF extractError
  THEN [NoResult EXCEPT !.error = "Could not extract article content"]
  ELSE IF score < config.minScore
  THEN [NoResult EXCEPT !.error = "Content quality too low", !.score = score,
                        !.suggestion = TRUE, !.usedPlaywright = TRUE,
                        !.playwrightReason = reason]
  ELSE [success |-> TRUE, score |-> score, usedPlaywright |-> TRUE,
        playwrightReason |-> reason, error |-> "", suggestion |-> FALSE,
        title |-> title]

\* reconcile taking the fallback when the scores are equal
reconcileAtLeast(simple, playwrightResult) ==
  IF playwrightResult.success /\ playwrightResult.score >= simple.score
  THEN playwrightResult
  ELSE simple

\* reconcile handing a failed fallback result to the caller
reconcileSurfaceFailure(simple, playwrightResult) ==
  IF playwrightResult.success /\ playwrightResult.score <= simple.score
  THEN simple
  ELSE playwrightResult

\* reconcile returning the fallback's result whatever it is
reconcileFallbackAlways(simple, playwrightResult) == playwrightResult

\* fetchUrl's choice between the marginal simple result and the fallback's
reconcile(simple, playwrightResult) ==
  IF playwrightResult.success /\ playwrightResult.score > simple.score
  THEN playwrightResult
  ELSE simple

----------------------------------------------------------------------------
(* State *)

Callers == 1..NumCallers

VARIABLES
  config,           \* the FetchiConfig loadConfig returned
  currentManager,   \* manager.ts: TRUE when a BrowserManager is cached
  browserInstance,  \* local.ts: the Browser object held, 0 for null
  launched,         \* number of browser processes started so far
  process,          \* state of each browser process: "none", "open", "closing", "closed"
  leaked,           \* processes that carry a context no call will close
  pc,               \* per caller: the await it is suspended at
  loc,              \* per caller: the local variables of its call chain
  today,            \* index into Days of the current date
  tempDir,          \* file name -> text, the temp directory
  docsDir,          \* file name -> text, the permanent directory
  ops,              \* the store client: operations called so far
  save,             \* the store client: its saveToTemp call in progress
  saved,            \* the store client: its last finished saveToTemp call
  last,             \* the store client: its last synchronous call and the result
  linksCall,        \* fetchLinksFromRef: the locals of the call and its position
  linkTask          \* fetchLinksFromRef: per link, the task batch.map started

vars == <<config, currentManager, browserInstance, launched, process, leaked,
          pc, loc, today, tempDir, docsDir, ops, save, saved, last, linksCall,
          linkTask>>

browserVars == <<currentManager, browserInstance, launched, process, leaked>>
storeVars == <<today, tempDir, docsDir, ops, save, saved, last>>
linkVars == <<linksCall, linkTask>>

NoLocals == [url |-> <<>>, forcePlaywright |-> FALSE, simpleFetches |-> 0,
             status |-> 0, reason |-> "", fallbacks |-> 0,
             simple |-> NoResult, browser |-> 0, context |-> FALSE,
             browserError |-> FALSE, fallback |-> NoResult, closing |-> 0,
             result |-> NoResult, write |-> NoSave]

EmptyDir == [n \in {} |-> <<>>]

\* no saveToTemp call
NoCall == [title |-> <<>>, url |-> <<>>, content |-> <<>>, query |-> <<>>,
           refetch |-> FALSE, existing |-> NoRef, out |-> NoSave,
           writing |-> FALSE, had |-> FALSE, previous |-> <<>>]

\* no synchronous call yet
NoReturn == [at |-> 0, op |-> "", refId |-> <<>>, success |-> FALSE, error |-> "",
             path |-> <<>>]

\* a FetchLinkResult
NoLinkResult == [url |-> <<>>, status |-> "", refId |-> <<>>, error |-> ""]

\* a link whose task has not been started
NoTask == [pc |-> "none", fetch |-> "", existing |-> NoRef, write |-> NoSave,
           out |-> NoLinkResult]

\* no fetchLinksFromRef call
NoLinksCall == [pc |-> "idle", urls |-> <<>>, i |-> 0, refetch |-> FALSE,
                results |-> <<>>, closeBrowserCalls |-> 0, error |-> FALSE]

\* nothing runs: no manager, no browser, no call in progress
Idle ==
  /\ currentManager = FALSE
  /\ browserInstance = 0
  /\ launched = 0
  /\ process = [b \in 1..MaxLaunches |-> "none"]
  /\ leaked = {}
  /\ pc = [p \in Callers |-> "idle"]
  /\ loc = [p \in Callers |-> NoLocals]
  /\ today = 1
  /\ docsDir = EmptyDir
  /\ ops = 0
  /\ save = NoCall
  /\ saved = NoCall
  /\ last = NoReturn
  /\ linksCall = NoLinksCall
  /\ linkTask = [k \in 1..MaxLinks |-> NoTask]

\* nothing has run yet: nothing runs and the temp directory is empty
Start == Idle /\ tempDir = EmptyDir

\* the configuration of config/defaults.ts
Init == config = DefaultConfig /\ Start

\* any configuration the schema accepts
InitPipeline == config \in Configs /\ Start

----------------------------------------------------------------------------
(* One caller's top-level operation, as in handleFetchUrl (index.ts) and    *)
(* commandFetch (cli.ts): fetchUrl, then closeBrowser, then saveToTemp; or  *)
(* as in one link's task of fetchLinksFromRef: fetchUrl, then saveToTemp.   *)
(* Each action runs one caller from one await to the next.  The browser     *)
(* manager is the local one (mode local of getBrowserManager).              *)

Set(p, f, v) == [loc EXCEPT ![p][f] = v]

\* the markdown processHtmlToMarkdown returns: its header lines, then the body
markdownOf(title, url) ==
  <<"#", SP>> \o title \o <<LF, LF, "**URL:**", SP>> \o url
  \o <<LF, LF, DASH3, LF, LF, "x">>

\* what the caller holds once fetchUrl has returned: its url and the result
Returned(p) == [NoLocals EXCEPT !.url = loc[p].url, !.result = loc[p].result]

\* fetchUrl is entered: the fallback at once when forced, else the simple fetch
fetchUrl(p, in) ==
  /\ pc[p] = "idle"
  /\ \E u \in in.urls, f \in in.forced :
       /\ loc' = [loc EXCEPT ![p] = [NoLocals EXCEPT !.url = u,
                                        !.forcePlaywright = f,
                                        !.reason = IF f THEN "forced" ELSE ""]]
       /\ pc' = [pc EXCEPT ![p] = IF f THEN "getBrowserManager" ELSE "simpleFetch"]
  /\ UNCHANGED <<config, browserVars, storeVars, linkVars>>

\* the outcome of fetch(): 0 when the promise rejects (no response), or the
\* status of the response
NoResponse == 0
Statuses == {NoResponse, 200, 304, 404}

\* response.ok: the status is within 200..299
responseOk(status) == status >= 200 /\ status <= 299

\* simpleFetch whose error is returned to the caller as a failed result
simpleFetchSurfacesError(p, in) ==
  /\ pc[p] = "simpleFetch"
  /\ \E status \in in.statuses :
       /\ status # NoResponse => fetchAccepts(loc[p].url)
       /\ IF responseOk(status)
          THEN /\ pc' = [pc EXCEPT ![p] = "extract"]
               /\ loc' = [loc EXCEPT ![p].status = status,
                                     ![p].simpleFetches = @ + 1]
          ELSE /\ pc' = [pc EXCEPT ![p] = "fetched"]
               /\ loc' = [loc EXCEPT ![p].status = status,
                                     ![p].simpleFetches = @ + 1,
                                     ![p].reason = "network_error",
                                     ![p].result = [NoResult EXCEPT !.error = "fetch failed"]]
  /\ UNCHANGED <<config, browserVars, storeVars, linkVars>>

\* simpleFetch that hands the body of every response to the extraction
simpleFetchIgnoresStatus(p, in) ==
  /\ pc[p] = "simpleFetch"
  /\ \E status \in in.statuses :
       /\ status # NoResponse => fetchAccepts(loc[p].url)
       /\ IF status # NoResponse
          THEN /\ pc' = [pc EXCEPT ![p] = "extract"]
               /\ loc' = [loc EXCEPT ![p].status = status,
                                     ![p].simpleFetches = @ + 1]
          ELSE /\ pc' = [pc EXCEPT ![p] = "getBrowserManager"]
               /\ loc' = [loc EXCEPT ![p].status = status,
                                     ![p].simpleFetches = @ + 1,
                                     ![p].reason = "network_error"]
  /\ UNCHANGED <<config, browserVars, storeVars, linkVars>>

\* simpleFetch settles: the html of a 2xx response, or an error (rejected
\* fetch, or a response whose status is not 2xx) that sends fetchUrl to
\* tryPlaywright with reason network_error
simpleFetch(p, in) ==
  /\ pc[p] = "simpleFetch"
  /\ \E status \in in.statuses :
       /\ status # NoResponse => fetchAccepts(loc[p].url)
       /\ IF responseOk(status)
          THEN /\ pc' = [pc EXCEPT ![p] = "extract"]
               /\ loc' = [loc EXCEPT ![p].status = status,
                                     ![p].simpleFetches = @ + 1]
          ELSE /\ pc' = [pc EXCEPT ![p] = "getBrowserManager"]
               /\ loc' = [loc EXCEPT ![p].status = status,
                                     ![p].simpleFetches = @ + 1,
                                     ![p].reason = "network_error"]
  /\ UNCHANGED <<config, browserVars, storeVars, linkVars>>

\* processHtmlToMarkdown settles on the simple html; validateMarkdown scores it
\* and fetchUrl accepts it or goes on to tryPlaywright
extractSimple(p, in) ==
  /\ pc[p] = "extract"
  /\ \E extractError \in in.extractErrors, score \in in.scores, title \in in.titles :
       IF extractError
       THEN /\ pc' = [pc EXCEPT ![p] = "getBrowserManager"]
            /\ loc' = Set(p, "reason", "extraction_failed")
       ELSE IF routeSimple(score, config) = "accept"
       THEN /\ pc' = [pc EXCEPT ![p] = "fetched"]
            /\ loc' = [loc EXCEPT ![p].simple = simpleResult(score, title),
                                  ![p].result = simpleResult(score, title)]
       ELSE /\ pc' = [pc EXCEPT ![p] = "getBrowserManager"]
            /\ loc' = [loc EXCEPT ![p].reason = routeSimple(score, config),
                                  ![p].simple = simpleResult(score, title)]
  /\ UNCHANGED <<config, browserVars, storeVars, linkVars>>

\* tryPlaywright is entered, the call's fallback attempt; fetchWithBrowser:
\* await getBrowserManager(config), mode local
getBrowserManager(p) ==
  /\ pc[p] = "getBrowserManager"
  /\ currentManager' = TRUE
  /\ loc' = [loc EXCEPT ![p].fallbacks = @ + 1]
  /\ pc' = [pc EXCEPT ![p] = "getBrowser"]
  /\ UNCHANGED <<config, browserInstance, launched, process, leaked, storeVars, linkVars>>

\* LocalBrowserManager.getBrowser up to its await: the held Browser, or a launch
getBrowser(p) ==
  /\ pc[p] = "getBrowser"
  /\ IF browserInstance # 0
     THEN /\ loc' = Set(p, "browser", browserInstance)
          /\ pc' = [pc EXCEPT ![p] = "newContext"]
     ELSE /\ loc' = loc
          /\ pc' = [pc EXCEPT ![p] = "launching"]
  /\ UNCHANGED <<config, browserVars, storeVars, linkVars>>

\* chromium.launch resolves: a new process, stored in browserInstance
launchDone(p) ==
  /\ pc[p] = "launching"
  /\ launched < MaxLaunches
  /\ launched' = launched + 1
  /\ process' = [process EXCEPT ![launched + 1] = "open"]
  /\ browserInstance' = launched + 1
  /\ loc' = Set(p, "browser", launched + 1)
  /\ pc' = [pc EXCEPT ![p] = "newContext"]
  /\ UNCHANGED <<config, currentManager, leaked, storeVars, linkVars>>

\* chromium.launch rejects: getBrowser is called outside fetchWithBrowser's try,
\* so the rejection passes through tryPlaywright and fetchUrl to the caller
launchFailed(p) ==
  /\ pc[p] = "launching"
  /\ pc' = [pc EXCEPT ![p] = "thrown"]
  /\ UNCHANGED <<config, browserVars, loc, storeVars, linkVars>>

\* browser.newContext(): throws into the catch when the process is gone
newContext(p) ==
  /\ pc[p] = "newContext"
  /\ \E ok \in BOOLEAN :
       /\ ok => process[loc[p].browser] # "closed"
       /\ ~ok => process[loc[p].browser] # "open"
       /\ IF ok
          THEN /\ loc' = Set(p, "context", TRUE)
               /\ pc' = [pc EXCEPT ![p] = "goto"]
          ELSE /\ loc' = Set(p, "browserError", TRUE)
               /\ pc' = [pc EXCEPT ![p] = "fetchWithBrowserReturned"]
  /\ UNCHANGED <<config, browserVars, storeVars, linkVars>>

\* context.newPage(), page.goto(), page.content(): rendered html, or a
\* navigation error, a timeout or a closed process, which the catch turns into
\* an error result without closing the page and the context
goto(p) ==
  /\ pc[p] = "goto"
  /\ \E ok \in BOOLEAN :
       /\ ok => process[loc[p].browser] = "open"
       /\ IF ok
          THEN /\ loc' = loc
               /\ pc' = [pc EXCEPT ![p] = "closeContext"]
          ELSE /\ loc' = Set(p, "browserError", TRUE)
               /\ pc' = [pc EXCEPT ![p] = "fetchWithBrowserReturned"]
  /\ UNCHANGED <<config, browserVars, storeVars, linkVars>>

\* page.close(), context.close(), return { html }; on a process that is gone
\* the close calls may throw into the catch
closeContext(p) ==
  /\ pc[p] = "closeContext"
  /\ \E ok \in BOOLEAN :
       /\ ~ok => process[loc[p].browser] # "open"
       /\ loc' = IF ok THEN Set(p, "context", FALSE) ELSE Set(p, "browserError", TRUE)
       /\ pc' = [pc EXCEPT ![p] = "fetchWithBrowserReturned"]
  /\ UNCHANGED <<config, browserVars, storeVars, linkVars>>

\* tryPlaywright continues after fetchWithBrowser, and fetchUrl returns its
\* result, reconciled with the simple result when the reason is quality_marginal
tryPlaywrightDone(p, in) ==
  /\ pc[p] = "fetchWithBrowserReturned"
  /\ \E extractError \in in.extractErrors, score \in in.scores, title \in in.titles :
       LET fallback == tryPlaywright(loc[p].reason, loc[p].browserError,
                                     extractError, score, title, config)
       IN loc' = [loc EXCEPT ![p].fallback = fallback,
                             ![p].context = FALSE,
                             ![p].browser = 0,
                             ![p].browserError = FALSE,
                             ![p].result =
                               IF loc[p].reason = "quality_marginal"
                               THEN reconcile(loc[p].simple, fallback)
                               ELSE fallback]
  /\ leaked' = IF loc[p].context /\ process[loc[p].browser] = "open"
               THEN leaked \cup {loc[p].browser} ELSE leaked
  /\ pc' = [pc EXCEPT ![p] = "fetched"]
  /\ UNCHANGED <<config, currentManager, browserInstance, launched, process, storeVars, linkVars>>

\* closeBrowser (manager.ts) into LocalBrowserManager.closeBrowser, up to the
\* first await: browserInstance.close() is called on the held Browser
closeBrowser(p) ==
  /\ pc[p] = "fetched"
  /\ IF ~currentManager
     THEN /\ pc' = [pc EXCEPT ![p] = "closed"]
          /\ loc' = [loc EXCEPT ![p] = Returned(p)]
          /\ UNCHANGED process
     ELSE IF browserInstance # 0
     THEN /\ pc' = [pc EXCEPT ![p] = "browserClosing"]
          /\ loc' = [loc EXCEPT ![p] = [Returned(p) EXCEPT !.closing = browserInstance]]
          /\ process' = [process EXCEPT ![browserInstance] =
                           IF @ = "open" THEN "closing" ELSE @]
     ELSE /\ pc' = [pc EXCEPT ![p] = "managerClosing"]
          /\ loc' = [loc EXCEPT ![p] = Returned(p)]
          /\ UNCHANGED process
  /\ UNCHANGED <<config, currentManager, browserInstance, launched, leaked, storeVars, linkVars>>

browserClosedKeepsInstance(p) ==
  /\ pc[p] = "browserClosing"
  /\ process' = [process EXCEPT ![loc[p].closing] = "closed"]
  /\ leaked' = leaked \ {loc[p].closing}
  /\ pc' = [pc EXCEPT ![p] = "managerClosing"]
  /\ UNCHANGED <<config, currentManager, browserInstance, launched, loc, storeVars, linkVars>>

\* browserInstance.close() resolves: the process is gone, browserInstance = null
browserClosed(p) ==
  /\ pc[p] = "browserClosing"
  /\ process' = [process EXCEPT ![loc[p].closing] = "closed"]
  /\ leaked' = leaked \ {loc[p].closing}
  /\ browserInstance' = 0
  /\ pc' = [pc EXCEPT ![p] = "managerClosing"]
  /\ UNCHANGED <<config, currentManager, launched, loc, storeVars, linkVars>>

\* currentManager.closeBrowser() resolves: currentManager = null
managerClosed(p) ==
  /\ pc[p] = "managerClosing"
  /\ currentManager' = FALSE
  /\ pc' = [pc EXCEPT ![p] = "closed"]
  /\ UNCHANGED <<config, browserInstance, launched, process, leaked, loc, storeVars, linkVars>>

\* a caller that holds the result of fetchUrl: a failed result is reported, a
\* successful one is handed to saveToTemp, which runs up to its writeFile
handOver(p, refetch) ==
  /\ IF ~loc[p].result.success
     THEN /\ pc' = [pc EXCEPT ![p] = "idle"]
          /\ loc' = [loc EXCEPT ![p] = NoLocals]
     ELSE \E existing \in findByUrlAnswers(tempDir, loc[p].url) :
            LET w == saveToTemp(existing, loc[p].result.title, loc[p].url,
                                markdownOf(loc[p].result.title, loc[p].url),
                                <<>>, refetch, today)
            IN /\ pc' = [pc EXCEPT ![p] = "saving"]
               /\ loc' = [loc EXCEPT ![p] = [Returned(p) EXCEPT !.write = w]]
  /\ UNCHANGED <<config, browserVars, storeVars, linkVars>>

\* handleFetchUrl and commandFetch after their closeBrowser
callerSave(p) ==
  /\ pc[p] = "closed"
  /\ handOver(p, FALSE)

\* one link's task of fetchLinksFromRef: fetchUrl, then saveToTemp with the
\* batch's refetch option, and no closeBrowser of its own
linkSave(p, in) ==
  /\ pc[p] = "fetched"
  /\ \E refetch \in in.refetch : handOver(p, refetch)

\* saveToTemp resolves, after its writeFile when it started one, and the
\* caller returns
callerSaved(p) ==
  /\ pc[p] = "saving"
  /\ tempDir' = IF loc[p].write.write
                THEN writeFile(tempDir, loc[p].write.filepath, loc[p].write.text)
                ELSE tempDir
  /\ pc' = [pc EXCEPT ![p] = "idle"]
  /\ loc' = [loc EXCEPT ![p] = NoLocals]
  /\ UNCHANGED <<config, browserVars, today, docsDir, ops, save, saved, last, linkVars>>

\* the rejection of fetchUrl reaches the caller's error handler: neither
\* closeBrowser nor saveToTemp is called
callerThrown(p) ==
  /\ pc[p] = "thrown"
  /\ pc' = [pc EXCEPT ![p] = "idle"]
  /\ loc' = [loc EXCEPT ![p] = NoLocals]
  /\ UNCHANGED <<config, browserVars, storeVars, linkVars>>

----------------------------------------------------------------------------
(* core/cache.ts: a client that calls the store's operations one at a time  *)

\* content.replace(/^status:\s*temporary$/m, 'status: permanent'): the first
\* line of the whole text that reads status: temporary
statusLines(text) ==
  {i \in 1..Len(text) :
     /\ text[i] = "status:"
     /\ (i = 1 \/ IsLineTerminator(text[i - 1]))
     /\ \E k \in (i + 1)..Len(text) :
          /\ text[k] = "temporary"
          /\ \A n \in (i + 1)..(k - 1) : IsWhitespace(text[n])
          /\ (k = Len(text) \/ IsLineTerminator(text[k + 1]))}

replaceStatusKeepsText(text) == text

replaceStatus(text) ==
  IF statusLines(text) = {} THEN text
  ELSE LET i == Min(statusLines(text))
           k == Min({n \in (i + 1)..Len(text) : text[n] = "temporary"})
       IN SubSeq(text, 1, i - 1) \o <<"status:", SP, "permanent">> \o Drop(text, k + 1)

\* the titles, urls, bodies and refIds the client uses
StoreTitles == {<<"A">>, <<"a", "!">>, <<"b">>}
StoreUrls == {<<"https://", "a">>, <<"https://", "b">>, <<"https://", "a", LF>>,
              <<"https://", "a", CR, LF, "query:", SP, "b">>,
              <<"https://", "a", LS, "query:", SP, "b">>}
\* the body of the client's n-th call: every call brings a new text
StoreBodies == <<"x1", "x2", "x3", "x4", "x5", "x6">>
StoreRefIds == {<<"a">>, <<"b">>, <<"c">>}

\* the error strings of promoteReference and deleteCached: the message they
\* build when findCached returns null, and the message of the exception
\* readFileSync throws for a file that is gone
NotFound == "Reference not found in tempDir"
ENOENT == "ENOENT: no such file or directory"

\* saveToTemp is called and runs up to its await
storeSave(in) ==
  /\ save = NoCall
  /\ ops < MaxStoreOps
  /\ ops' = ops + 1
  /\ \E title \in in.titles, url \in in.urls, content \in {<<StoreBodies[ops + 1]>>},
        refetch \in in.refetch :
     \E existing \in findByUrlAnswers(tempDir, url) :
       save' = [NoCall EXCEPT
                  !.title = title, !.url = url, !.content = content,
                  !.refetch = refetch, !.existing = existing,
                  !.out = saveToTemp(existing, title, url, content, <<>>, refetch, today)]
  /\ UNCHANGED <<config, browserVars, pc, loc, today, tempDir, docsDir, saved, last, linkVars>>

\* writeFile of fs/promises opens the target with flag 'w' and writes the text
\* in a later turn of the event loop: once opened, the file exists and is empty
storeOpened ==
  /\ save # NoCall
  /\ save.out.write
  /\ ~save.writing
  /\ LET f == save.out.filepath
     IN /\ save' = [save EXCEPT !.writing = TRUE,
                                !.had = f \in DOMAIN tempDir,
                                !.previous = IF f \in DOMAIN tempDir THEN tempDir[f] ELSE <<>>]
        /\ tempDir' = writeFile(tempDir, f, <<>>)
  /\ UNCHANGED <<config, browserVars, pc, loc, today, docsDir, ops, saved, last, linkVars>>

\* saveToTemp resolves, after its writeFile when it started one
storeSaved ==
  /\ save # NoCall
  /\ save.out.write => save.writing
  /\ tempDir' = IF save.out.write
                THEN writeFile(tempDir, save.out.filepath, save.out.text)
                ELSE tempDir
  /\ saved' = [save EXCEPT !.writing = FALSE, !.had = FALSE, !.previous = <<>>]
  /\ save' = NoCall
  /\ UNCHANGED <<config, browserVars, pc, loc, today, docsDir, ops, last, linkVars>>

\* promoteReference: the file is copied to docsDir with its status rewritten
\* and removed from tempDir; nothing happens when findCached finds no file.
\* vanished: another process removes the file after findCached has listed it
\* and before readFileSync opens it; the catch block returns the message of
\* the exception.
promoteReference(refId, in) ==
  /\ save = NoCall
  /\ ops < MaxStoreOps
  /\ ops' = ops + 1
  /\ LET result == [at |-> ops + 1, op |-> "promoteReference", refId |-> refId,
                    success |-> FALSE, error |-> "", path |-> <<>>]
     IN IF findCachedMatches(tempDir, refId) = {}
        THEN /\ last' = [result EXCEPT !.error = NotFound]
             /\ UNCHANGED <<tempDir, docsDir>>
        ELSE \E cached \in findCachedMatches(tempDir, refId), vanished \in in.vanished :
               IF vanished
               THEN /\ tempDir' = unlinkSync(tempDir, cached.filepath)
                    /\ docsDir' = docsDir
                    /\ last' = [result EXCEPT !.error = ENOENT]
               ELSE /\ docsDir' = writeFile(docsDir, cached.filepath,
                                            replaceStatus(tempDir[cached.filepath]))
                    /\ tempDir' = unlinkSync(tempDir, cached.filepath)
                    /\ last' = [result EXCEPT !.success = TRUE, !.path = cached.filepath]
  /\ UNCHANGED <<config, browserVars, pc, loc, today, save, saved, linkVars>>

\* deleteCached: the file findCached finds is removed
deleteCached(refId) ==
  /\ save = NoCall
  /\ ops < MaxStoreOps
  /\ ops' = ops + 1
  /\ LET result == [at |-> ops + 1, op |-> "deleteCached", refId |-> refId,
                    success |-> FALSE, error |-> "", path |-> <<>>]
     IN IF findCachedMatches(tempDir, refId) = {}
        THEN /\ last' = [result EXCEPT !.error = NotFound]
             /\ UNCHANGED tempDir
        ELSE \E cached \in findCachedMatches(tempDir, refId) :
               /\ tempDir' = unlinkSync(tempDir, cached.filepath)
               /\ last' = [result EXCEPT !.success = TRUE, !.path = cached.filepath]
  /\ UNCHANGED <<config, browserVars, pc, loc, today, docsDir, save, saved, linkVars>>

\* midnight passes: new Date() reports the next day
nextDay ==
  /\ today < MaxDay
  /\ today' = today + 1
  /\ UNCHANGED <<config, browserVars, pc, loc, tempDir, docsDir, ops, save, saved, last,
                 linkVars>>

\* what the client of SpecStore passes: urls with line breaks in them, and no
\* other process at work in the directory
StoreInputs ==
  [titles |-> StoreTitles,
   urls |-> StoreUrls \ {<<"https://", "a", CR, LF, "query:", SP, "b">>},
   refetch |-> BOOLEAN, refIds |-> {<<"a">>}, vanished |-> {FALSE}]

\* what the client of SpecMoves passes: plain titles, a url that carries the
\* text of a status line, no refetch, every refId, and files that another
\* process removes
MoveInputs ==
  [titles |-> {<<"A">>, <<"b">>},
   urls |-> {<<"https://", "a">>, <<"https://", "a", LS, "status:", SP, "temporary">>},
   refetch |-> {FALSE}, refIds |-> StoreRefIds, vanished |-> BOOLEAN]

storeStep(in) ==
  \/ storeSave(in)
  \/ storeOpened
  \/ storeSaved
  \/ \E refId \in in.refIds : promoteReference(refId, in)
  \/ \E refId \in in.refIds : deleteCached(refId)
  \/ nextDay

NextStore == storeStep(StoreInputs)

\* SpecStore: save, promote and delete run one at a time on one store
SpecStore == Init /\ [][NextStore]_vars

\* what the client of SpecCollide passes: titles of which two have the slug a,
\* two urls, no refetch
CollideInputs ==
  [titles |-> {<<"A">>, <<"a", "!">>, <<"b">>},
   urls |-> {<<"https://", "a">>, <<"https://", "b">>},
   refetch |-> {FALSE}, refIds |-> {<<"a">>}, vanished |-> {FALSE}]

NextCollide == storeStep(CollideInputs)

\* SpecCollide: the same client with titles whose slugs collide
SpecCollide == Init /\ [][NextCollide]_vars

NextMoves == storeStep(MoveInputs)

\* SpecMoves: the same client with plain input, all refIds and vanishing files
SpecMoves == Init /\ [][NextMoves]_vars

\* what the environment may hand to the callers of Spec: one http url whose
\* page, when it can be fetched, is extracted with one of two titles and
\* scores above the threshold
HttpUrl == <<"https://", "a">>
HighScore == 90

ConcurrentInputs ==
  [urls |-> {HttpUrl}, forced |-> {FALSE}, statuses |-> {200, 404}, extractErrors |-> {FALSE},
   scores |-> {HighScore}, titles |-> PageTitles, refetch |-> {FALSE}]

\* what the environment may hand to the caller of SpecPipeline
AllInputs ==
  [urls |-> HandlerUrls, forced |-> BOOLEAN, statuses |-> Statuses, extractErrors |-> BOOLEAN,
   scores |-> Scores, titles |-> PageTitles, refetch |-> BOOLEAN]

step(p, in) ==
  \/ fetchUrl(p, in)
  \/ simpleFetch(p, in)
  \/ extractSimple(p, in)
  \/ getBrowserManager(p)
  \/ getBrowser(p)
  \/ launchDone(p)
  \/ launchFailed(p)
  \/ newContext(p)
  \/ goto(p)
  \/ closeContext(p)
  \/ tryPlaywrightDone(p, in)
  \/ closeBrowser(p)
  \/ browserClosed(p)
  \/ managerClosed(p)
  \/ callerSave(p)
  \/ linkSave(p, in)
  \/ callerSaved(p)
  \/ callerThrown(p)

\* Spec: NumCallers callers run the operation concurrently
Next == \E p \in Callers : step(p, ConcurrentInputs)

Spec == Init /\ [][Next]_vars

\* SpecPipeline: one caller, every kind of url, score, title and configuration
NextPipeline == step(1, AllInputs)

SpecPipeline == InitPipeline /\ [][NextPipeline]_vars

----------------------------------------------------------------------------
(* core/fetch-links.ts: fetchLinksFromRef.  The call to fetchUrl of a link   *)
(* is represented by the result it settles with; the steps inside it and its *)
(* use of the browser are those of the caller above (fetchUrl .. linkSave).  *)

concurrency == 5

\* the links of the source reference: distinct http(s) urls, as
\* extractLinksFromMarkdown returns them, and the title of the page of each
LinkNames == <<"1", "2", "3", "4", "5", "6", "7", "8">>
linkUrl(k) == <<"https://", LinkNames[k]>>
linkTitle(k) == <<LinkNames[k]>>

\* the indices of urls.slice(i, i + concurrency), plus one
batchOneMore(urls, i) == {k \in 1..Len(urls) : i < k /\ k <= i + concurrency + 1}

\* the indices (from 1) of urls.slice(i, i + concurrency)
batch(urls, i) == {k \in 1..Len(urls) : i < k /\ k <= i + concurrency}

\* batch.map(async (url) => ...): every task of the window runs up to its
\* await of fetchUrl
startBatch(tasks, urls, i) ==
  [k \in DOMAIN tasks |->
     IF k \in batch(urls, i) THEN [NoTask EXCEPT !.pc = "fetchUrl"] ELSE tasks[k]]

\* the SaveResult of saveToTemp's catch
SaveError == [NoSave EXCEPT !.refId = <<>>, !.filepath = <<>>]

\* the task's result that reports every stored url as new
linkResultNeverCached(url, saveResult, saveFailed) ==
  IF saveFailed
  THEN [url |-> url, status |-> "failed", refId |-> <<>>, error |-> "save"]
  ELSE [url |-> url, status |-> "new", refId |-> saveResult.refId, error |-> ""]

\* the task's result after saveToTemp
linkResult(url, saveResult, saveFailed) ==
  IF saveFailed
  THEN [url |-> url, status |-> "failed", refId |-> <<>>, error |-> "save"]
  ELSE IF saveResult.alreadyExists
  THEN [url |-> url, status |-> "cached", refId |-> saveResult.refId, error |-> ""]
  ELSE [url |-> url, status |-> "new", refId |-> saveResult.refId, error |-> ""]

\* fetchLinksFromRef is called: extractLinksFromCached fails, finds no link,
\* or finds links, and then the first window is started
fetchLinksFromRef ==
  /\ linksCall.pc = "idle"
  /\ \E n \in 0..MaxLinks, refetch \in BOOLEAN, error \in BOOLEAN :
       /\ error => n = 0
       /\ IF n = 0
          THEN /\ linksCall' = [NoLinksCall EXCEPT !.pc = "returned", !.error = error]
               /\ linkTask' = linkTask
          ELSE LET urls == [k \in 1..n |-> linkUrl(k)]
               IN /\ linksCall' = [NoLinksCall EXCEPT !.pc = "Promise.all",
                                                     !.urls = urls,
                                                     !.refetch = refetch]
                  /\ linkTask' = startBatch(linkTask, urls, 0)
  /\ UNCHANGED <<config, browserVars, pc, loc, storeVars>>

\* a task without its catch, when fetchUrl rejects: Promise.all rejects and
\* with it fetchLinksFromRef
linkFetchedUncaught(k) ==
  /\ linkTask[k].pc = "fetchUrl"
  /\ linkTask' = [linkTask EXCEPT ![k].pc = "settled", ![k].fetch = "thrown"]
  /\ linksCall' = [linksCall EXCEPT !.pc = "rejected"]
  /\ UNCHANGED <<config, browserVars, pc, loc, storeVars>>

\* fetchUrl settles for link k: a failed result and a rejection settle the
\* task as failed; a successful result goes to saveToTemp, which returns at
\* once what is stored or runs up to its writeFile
linkFetched(k) ==
  /\ linkTask[k].pc = "fetchUrl"
  /\ \E fetch \in {"success", "failure", "thrown"} :
       LET url == linksCall.urls[k]
       IN IF fetch # "success"
          THEN linkTask' = [linkTask EXCEPT
                 ![k].pc = "settled",
                 ![k].fetch = fetch,
                 ![k].out = [url |-> url, status |-> "failed", refId |-> <<>>,
                             error |-> fetch]]
          ELSE \E existing \in findByUrlAnswers(tempDir, url) :
                 LET w == saveToTemp(existing, linkTitle(k), url,
                                     markdownOf(linkTitle(k), url), <<>>,
                                     linksCall.refetch, today)
                 IN linkTask' = [linkTask EXCEPT
                      ![k].pc = IF w.write THEN "saveToTemp" ELSE "settled",
                      ![k].fetch = fetch,
                      ![k].existing = existing,
                      ![k].write = w,
                      ![k].out = IF w.write THEN NoLinkResult
                                 ELSE linkResult(url, w, FALSE)]
  /\ UNCHANGED <<config, browserVars, pc, loc, storeVars, linksCall>>

\* writeFile settles for link k: the file is written and saveToTemp returns
\* its refId, or the write fails and saveToTemp returns an error
linkSaved(k) ==
  /\ linkTask[k].pc = "saveToTemp"
  /\ \E ok \in BOOLEAN :
       LET url == linksCall.urls[k]
           w == linkTask[k].write
       IN /\ tempDir' = IF ok THEN writeFile(tempDir, w.filepath, w.text) ELSE tempDir
          /\ linkTask' = [linkTask EXCEPT
               ![k].pc = "settled",
               ![k].write = IF ok THEN w ELSE SaveError,
               ![k].out = linkResult(url, IF ok THEN w ELSE SaveError, ~ok)]
  /\ UNCHANGED <<config, browserVars, pc, loc, today, docsDir, ops, save, saved, last,
                 linksCall>>

\* a loop that calls closeBrowser at the end of every window
windowSettledClosesEach ==
  /\ linksCall.pc = "Promise.all"
  /\ \A k \in batch(linksCall.urls, linksCall.i) : linkTask[k].pc = "settled"
  /\ LET i == linksCall.i
         urls == linksCall.urls
         batchResults == [j \in 1..Cardinality(batch(urls, i)) |-> linkTask[i + j].out]
     IN /\ linksCall' = [linksCall EXCEPT
              !.results = @ \o batchResults,
              !.i = i + concurrency,
              !.closeBrowserCalls = @ + 1,
              !.pc = IF i + concurrency < Len(urls) THEN "Promise.all" ELSE "closeBrowser"]
        /\ linkTask' = IF i + concurrency < Len(urls)
                       THEN startBatch(linkTask, urls, i + concurrency)
                       ELSE linkTask
  /\ UNCHANGED <<config, browserVars, pc, loc, storeVars>>

\* Promise.all(batchPromises) resolves once every task of the window has
\* settled: the results are appended in the order of the urls, and the loop
\* starts the next window or, after the last one, calls closeBrowser
windowSettled ==
  /\ linksCall.pc = "Promise.all"
  /\ \A k \in batch(linksCall.urls, linksCall.i) : linkTask[k].pc = "settled"
  /\ LET i == linksCall.i
         urls == linksCall.urls
         batchResults == [j \in 1..Cardinality(batch(urls, i)) |-> linkTask[i + j].out]
     IN IF i + concurrency < Len(urls)
        THEN /\ linksCall' = [linksCall EXCEPT !.results = @ \o batchResults,
                                               !.i = i + concurrency]
             /\ linkTask' = startBatch(linkTask, urls, i + concurrency)
        ELSE /\ linksCall' = [linksCall EXCEPT !.results = @ \o batchResults,
                                               !.i = i + concurrency,
                                               !.closeBrowserCalls = @ + 1,
                                               !.pc = "closeBrowser"]
             /\ linkTask' = linkTask
  /\ UNCHANGED <<config, browserVars, pc, loc, storeVars>>

\* closeBrowser resolves and fetchLinksFromRef returns results and summary
linksReturned ==
  /\ linksCall.pc = "closeBrowser"
  /\ linksCall' = [linksCall EXCEPT !.pc = "returned"]
  /\ UNCHANGED <<config, browserVars, pc, loc, storeVars, linkTask>>

\* the temp directory before the call: empty, or with the first link stored
\* by an earlier fetch
StoredFirstLink ==
  writeFile(EmptyDir, slugify(linkTitle(1)),
            fileContent(linkTitle(1), linkUrl(1), Days[1], <<>>,
                        markdownOf(linkTitle(1), linkUrl(1))))

InitLinks ==
  /\ config = DefaultConfig
  /\ Idle
  /\ tempDir \in {EmptyDir, StoredFirstLink}

NextLinks ==
  \/ fetchLinksFromRef
  \/ \E k \in 1..MaxLinks : linkFetched(k)
  \/ \E k \in 1..MaxLinks : linkSaved(k)
  \/ windowSettled
  \/ linksReturned

\* SpecLinks: one fetchLinksFromRef call on a store nothing else writes
SpecLinks == InitLinks /\ [][NextLinks]_vars

----------------------------------------------------------------------------
(* core/cache.ts and utils/markdown-validator.ts: the parts that compute a   *)
(* value from their arguments, each called once on an input of a small set  *)

\* n copies of c
Rep(c, n) == [i \in 1..n |-> c]

\* the titles slugify is called with: a run of letters, with and without other
\* characters before and after it
SlugTitles ==
  {pre \o Rep("a", n) \o post :
     n \in 0..MaxRun,
     pre \in {<<>>, <<"!">>},
     post \in {<<>>, <<"!">>, <<"!", "B">>, <<SP, "?", "1">>}}

slugifyCall ==
  /\ last = NoReturn
  /\ \E title \in SlugTitles :
       last' = [op |-> "slugify", title |-> title, slug |-> slugify(title)]
  /\ UNCHANGED <<config, browserVars, pc, loc, today, tempDir, docsDir, ops, save, saved,
                 linkVars>>

\* readdirSync(tempDir): the names of the files, in an order the platform chooses
readdirSync(dir) ==
  {files \in [1..Cardinality(DOMAIN dir) -> DOMAIN dir] :
     \A i, j \in DOMAIN files : i # j => files[i] # files[j]}

\* the loop of listCached over files: a file without a header block is passed
\* over, every other file gives one CachedReference
RECURSIVE references(_, _)
references(dir, files) ==
  IF files = <<>> THEN <<>>
  ELSE (IF hasFrontmatter(dir[Head(files)])
        THEN <<reference(Head(files), dir[Head(files)])>> ELSE <<>>)
       \o references(dir, Tail(files))

sortReferencesKeepsOrder(refs) == refs

\* references.sort((a, b) => b.fetchedDate.localeCompare(a.fetchedDate)): the
\* sort is stable, so a reference goes behind those that do not compare after it
RECURSIVE sortReferences(_)
sortReferences(refs) ==
  IF refs = <<>> THEN <<>>
  ELSE LET r == refs[Len(refs)]
           sorted == sortReferences(SubSeq(refs, 1, Len(refs) - 1))
           k == Cardinality({i \in 1..Len(sorted) :
                               DayRank(sorted[i].fetchedDate) >= DayRank(r.fetchedDate)})
       IN SubSeq(sorted, 1, k) \o <<r>> \o Drop(sorted, k + 1)

\* the ListResult of listCached when readdirSync returns files
listResult(dir, files) ==
  [references |-> sortReferences(references(dir, files)), error |-> ""]

\* the files listCached finds: saved on one of the days, without a header
\* block, with a header block that has a title only, with a header block that
\* is not closed, and empty
ListTexts ==
  {fileContent(<<"A">>, <<"https://", "a">>, Days[d], <<>>, <<"x1">>) : d \in 1..MaxDay}
  \cup {<<"x1", LF, "x2">>,
        <<DASH3, LF, "title:", SP, QUOTE, "A", QUOTE, LF, DASH3, LF, LF, "x1">>,
        <<DASH3, LF, "title:", SP, QUOTE, "A", QUOTE, LF>>,
        <<>>}

ListDirs == UNION {[names -> ListTexts] : names \in SUBSET StoreRefIds}

listCachedCall ==
  /\ last = NoReturn
  /\ \E dir \in ListDirs :
       \E files \in readdirSync(dir) :
         last' = [op |-> "listCached", dir |-> dir, files |-> files,
                  result |-> listResult(dir, files)]
  /\ UNCHANGED <<config, browserVars, pc, loc, today, tempDir, docsDir, ops, save, saved,
                 linkVars>>

\* /\[([^\]]+)\]\(([^)]+)\)/ at position a of s: the position of the ")" that
\* ends the match, 0 when there is no match at a.  The text runs to the first
\* "]", which a "(" must follow, and the href runs to the first ")".
matchEnd(s, a) ==
  LET closes == {j \in (a + 1)..Len(s) : s[j] = "]"}
  IN IF s[a] # "[" \/ closes = {} THEN 0
     ELSE LET j == Min(closes)
              ends == {k \in (j + 2)..Len(s) : s[k] = ")"}
          IN IF j = a + 1 \/ j + 1 > Len(s) \/ s[j + 1] # "(" \/ ends = {} THEN 0
             ELSE IF Min(ends) = j + 2 THEN 0 ELSE Min(ends)

\* content.matchAll(linkRegex) from position i on: match[1] and match[2] of
\* every match, left to right, a match starting behind the one before it
RECURSIVE matchAll(_, _)
matchAll(s, i) ==
  IF i > Len(s) THEN <<>>
  ELSE IF matchEnd(s, i) = 0 THEN matchAll(s, i + 1)
  ELSE LET j == Min({n \in (i + 1)..Len(s) : s[n] = "]"})
           k == matchEnd(s, i)
       IN <<[text |-> SubSeq(s, i + 1, j - 1), href |-> SubSeq(s, j + 2, k - 1)]>>
          \o matchAll(s, k + 1)

RECURSIVE keepLinksNoSeen(_, _)
keepLinksNoSeen(matches, seen) ==
  IF matches = <<>> THEN <<>>
  ELSE LET m == Head(matches)
       IN IF Head(m.href) \in {"http://", "https://"}
          THEN <<m>> \o keepLinksNoSeen(Tail(matches), seen \cup {m.href})
          ELSE keepLinksNoSeen(Tail(matches), seen)

\* the loop of extractLinksFromMarkdown: a match is pushed when its href starts
\* with http:// or https:// and is not in seen
RECURSIVE keepLinks(_, _)
keepLinks(matches, seen) ==
  IF matches = <<>> THEN <<>>
  ELSE LET m == Head(matches)
       IN IF Head(m.href) \in {"http://", "https://"} /\ m.href \notin seen
          THEN <<m>> \o keepLinks(Tail(matches), seen \cup {m.href})
          ELSE keepLinks(Tail(matches), seen)

extractLinksFromMarkdown(content) == keepLinks(matchAll(content, 1), {})

\* the LinkExtractionResult of extractLinksFromCached
extractLinksFromCached(dir, refId) ==
  IF findCachedMatches(dir, refId) = {}
  THEN [links |-> <<>>, count |-> 0, sourceRef |-> refId, error |-> NotFound]
  ELSE LET links == extractLinksFromMarkdown(body(dir[refId]))
       IN [links |-> links, count |-> Len(links), sourceRef |-> refId, error |-> ""]

\* an inline link [text](scheme rest) as tokens
Link(text, scheme, rest) == <<"[", text, "]", "(", scheme, rest, ")">>

\* what a body is made of: links with http, https and other targets, two of
\* them with the same href, and text between them
BodyParts ==
  {Link("A", "https://", "x"), Link("B", "https://", "x"), Link("B", "http://", "y"),
   Link("C", "mailto:", "z"), Link("D", "#", "s"), Link("E", "./", "f"),
   <<"w", SP>>, <<LF>>}

\* the bodies of at most MaxParts parts, each as the sequence of its parts
Bodies == UNION {[1..n -> BodyParts] : n \in 0..MaxParts}

RECURSIVE Flatten(_)
Flatten(parts) == IF parts = <<>> THEN <<>> ELSE Head(parts) \o Flatten(Tail(parts))

\* the titles of the stored page: plain, and with an inline link in it
LinkPageTitles == {<<"A">>, <<"A", SP>> \o Link("B", "https://", "h")}

extractLinksCall ==
  /\ last = NoReturn
  /\ \E title \in LinkPageTitles, parts \in Bodies :
     \E refId \in {slugify(title), <<"c">>} :
       LET text == fileContent(title, <<"https://", "a">>, Days[today], <<>>, Flatten(parts))
           dir == writeFile(EmptyDir, slugify(title), text)
       IN last' = [op |-> "extractLinksFromCached", title |-> title, parts |-> parts,
                   refId |-> refId, result |-> extractLinksFromCached(dir, refId)]
  /\ UNCHANGED <<config, browserVars, pc, loc, today, tempDir, docsDir, ops, save, saved,
                 linkVars>>

\* BOILERPLATE_PATTERNS: the label of each pattern, in the order of the loop
BOILERPLATE_PATTERNS ==
  <<"bot detection page", "captcha page", "bot verification page", "verification page",
    "JS-required page", "JS-required page", "unsupported browser page", "404 page",
    "404 page", "error page", "error page", "error page", "access denied page",
    "forbidden page", "login wall", "login wall", "login wall", "login wall",
    "login wall", "signup wall", "paywall", "paywall">>

RECURSIVE boilerplateNoBreak(_, _)
boilerplateNoBreak(matching, k) ==
  IF k > Len(BOILERPLATE_PATTERNS) THEN <<>>
  ELSE IF k \in matching
  THEN <<BOILERPLATE_PATTERNS[k]>> \o boilerplateNoBreak(matching, k + 1)
  ELSE boilerplateNoBreak(matching, k + 1)

\* the loop over BOILERPLATE_PATTERNS from pattern k on: the labels it reports.
\* matching: the patterns whose test(contentText) is true
RECURSIVE boilerplate(_, _)
boilerplate(matching, k) ==
  IF k > Len(BOILERPLATE_PATTERNS) THEN <<>>
  ELSE IF k \in matching THEN <<BOILERPLATE_PATTERNS[k]>>
  ELSE boilerplate(matching, k + 1)

finalScoreUnclamped(score) == score

\* Math.max(0, score)
finalScore(score) == IF score < 0 THEN 0 ELSE score

\* validateMarkdown on what its regular expressions measure on the markdown
\* (m) and on options.sourceHtmlLength (0: not given).  Ratios are compared
\* after multiplying out: htmlCharCount / length > 0.3 is
\* 10 * htmlCharCount > 3 * length.
validateMarkdown(m) ==
  LET tags == IF m.htmlTagCount > 100 THEN [d |-> 40, issues |-> <<"html tags">>]
              ELSE IF m.htmlTagCount > 50 THEN [d |-> 20, issues |-> <<>>]
              ELSE IF m.htmlTagCount > 10 THEN [d |-> 5, issues |-> <<>>]
              ELSE [d |-> 0, issues |-> <<>>]
      tables == IF m.tableTagCount > 50 THEN [d |-> 30, issues |-> <<"table tags">>]
                ELSE [d |-> 0, issues |-> <<>>]
      ratio == IF m.length > 0 /\ 10 * m.htmlCharCount > 3 * m.length
               THEN [d |-> 25, issues |-> <<"html ratio">>]
               ELSE IF m.length > 0 /\ 100 * m.htmlCharCount > 15 * m.length
               THEN [d |-> 10, issues |-> <<>>]
               ELSE [d |-> 0, issues |-> <<>>]
      script == IF m.scripts > 0 THEN 15 ELSE 0
      style == IF m.styles > 0 THEN 10 ELSE 0
      before == 100 - tags.d - tables.d - ratio.d - script - style
      length == IF m.contentLength = 0 THEN [score |-> 0, issues |-> <<"blank">>]
                ELSE IF m.contentLength < 50
                THEN [score |-> before - 50, issues |-> <<"extremely short">>]
                ELSE IF m.contentLength < 200
                        /\ (m.htmlTagCount > 50 \/ m.tableTagCount > 20)
                THEN [score |-> before - 30, issues |-> <<"short with html">>]
                ELSE IF m.contentLength < 300
                THEN [score |-> before - 15, issues |-> <<>>]
                ELSE [score |-> before, issues |-> <<>>]
      source == IF m.sourceHtmlLength > 0 /\ m.contentLength > 0
                THEN IF m.sourceHtmlLength > 10000
                        /\ 1000 * m.contentLength < 5 * m.sourceHtmlLength
                     THEN [d |-> 35, issues |-> <<"extraction ratio">>]
                     ELSE IF m.sourceHtmlLength > 10000
                             /\ 100 * m.contentLength < 2 * m.sourceHtmlLength
                     THEN [d |-> 20, issues |-> <<>>]
                     ELSE [d |-> 0, issues |-> <<>>]
                ELSE [d |-> 0, issues |-> <<>>]
      labels == IF m.contentLength > 0 /\ m.contentLength < 2000
                THEN boilerplate(m.matching, 1) ELSE <<>>
      newlines == IF m.newlineRuns > 10 THEN 5 ELSE 0
      score == finalScore(length.score - source.d - 40 * Len(labels) - newlines)
  IN [isValid |-> score >= 60,
      score |-> score,
      issues |-> tags.issues \o tables.issues \o ratio.issues \o length.issues
                 \o source.issues \o labels]

\* the measures validateMarkdown is called with: values on both sides of each
\* threshold, and none, one or several patterns that match
Measures ==
  [htmlTagCount : {0, 11, 51, 101},
   tableTagCount : {0, 21, 51},
   length : {0, 100},
   htmlCharCount : {0, 16, 31},
   scripts : {0, 1},
   styles : {0, 1},
   contentLength : {0, 49, 199, 299, 300, 1999, 2000},
   sourceHtmlLength : {0, 10000, 100000, 1000000},
   matching : SUBSET {10, 11, 18},
   newlineRuns : {10, 11}]

validateMarkdownCall ==
  /\ last = NoReturn
  /\ \E m \in Measures :
       last' = [op |-> "validateMarkdown", m |-> m, result |-> validateMarkdown(m)]
  /\ UNCHANGED <<config, browserVars, pc, loc, today, tempDir, docsDir, ops, save, saved,
                 linkVars>>

\* config/loader.ts, config/schema.ts: the quality section of the configuration.
\* An optional value is <<>> (undefined, or an unset variable) or <<v>>.

\* the value of one decimal digit
digitValue(d) ==
  CASE d = "1" -> 1 [] d = "2" -> 2 [] d = "3" -> 3 [] d = "4" -> 4
    [] d = "5" -> 5 [] d = "6" -> 6 [] d = "7" -> 7 [] d = "8" -> 8

\* parseInt(s, 10) of a string of decimal digits
RECURSIVE parseInt(_)
parseInt(s) ==
  IF Len(s) = 1 THEN digitValue(s[1])
  ELSE 10 * parseInt(SubSeq(s, 1, Len(s) - 1)) + digitValue(s[Len(s)])

\* loadConfigFromEnv: a variable that is set and not empty is parsed
loadConfigFromEnv(env) ==
  [minScore |-> IF env.SOFETCH_MIN_SCORE # <<>>
                THEN <<parseInt(env.SOFETCH_MIN_SCORE)>> ELSE <<>>,
   jsRetryThreshold |-> IF env.SOFETCH_JS_RETRY_THRESHOLD # <<>>
                        THEN <<parseInt(env.SOFETCH_JS_RETRY_THRESHOLD)>> ELSE <<>>]

\* deepMerge on the quality section: a value of the source replaces the target's
deepMerge(target, source) ==
  [minScore |-> IF source.minScore # <<>> THEN source.minScore[1]
                ELSE target.minScore,
   jsRetryThreshold |-> IF source.jsRetryThreshold # <<>>
                        THEN source.jsRetryThreshold[1]
                        ELSE target.jsRetryThreshold]

\* QualityConfigSchema: each number is within 0..100
QualityConfigSchema(quality) ==
  /\ quality.minScore >= 0 /\ quality.minScore <= 100
  /\ quality.jsRetryThreshold >= 0 /\ quality.jsRetryThreshold <= 100

\* loadConfig: the defaults, then the config file, then the environment, then
\* the command line; the schema accepts the result or parse throws
loadConfig(file, env, cliOverrides) ==
  LET merged == deepMerge(deepMerge(DefaultConfig, file), loadConfigFromEnv(env))
      quality ==
        [minScore |-> IF cliOverrides.minQuality # <<>>
                      THEN cliOverrides.minQuality[1] ELSE merged.minScore,
         jsRetryThreshold |-> IF cliOverrides.jsRetryThreshold # <<>>
                              THEN cliOverrides.jsRetryThreshold[1]
                              ELSE merged.jsRetryThreshold]
  IN  IF QualityConfigSchema(quality)
      THEN [ok |-> TRUE, quality |-> quality]
      ELSE [ok |-> FALSE, quality |-> quality]

\* the quality section of a config file
FileConfigs == [minScore : {<<>>, <<50>>, <<90>>}, jsRetryThreshold : {<<>>, <<70>>}]

\* the two variables of the environment
Envs ==
  [SOFETCH_MIN_SCORE : {<<>>, <<"8", "8">>, <<"1", "1", "1">>},
   SOFETCH_JS_RETRY_THRESHOLD : {<<>>, <<"5">>}]

\* the --min-quality and --js-retry-threshold options
CliOverrides == [minQuality : {<<>>, <<40>>, <<95>>}, jsRetryThreshold : {<<>>, <<101>>}]

loadConfigCall ==
  /\ last = NoReturn
  /\ \E file \in FileConfigs, env \in Envs, cliOverrides \in CliOverrides :
       last' = [op |-> "loadConfig", file |-> file, env |-> env,
                cliOverrides |-> cliOverrides,
                result |-> loadConfig(file, env, cliOverrides)]
  /\ UNCHANGED <<config, browserVars, pc, loc, today, tempDir, docsDir, ops, save, saved,
                 linkVars>>

\* titles with and without double quotes
QuotedTitles == {<<"A">>, <<"A", SP, "b">>, <<"A", QUOTE, "b">>, <<QUOTE, "A", QUOTE>>}

\* saveToTemp into an empty tempDir, then findCached(refId) and findByUrl(url)
saveThenFindCall ==
  /\ last = NoReturn
  /\ \E title \in QuotedTitles, url \in {<<"https://", "a">>, <<"https://", "b">>} :
       LET out == saveToTemp(NoRef, title, url, <<"x1">>, <<>>, FALSE, 1)
           dir == writeFile(EmptyDir, out.filepath, out.text)
       IN last' = [op |-> "saveThenFind", title |-> title, url |-> url,
                   refId |-> out.refId,
                   found |-> findCachedMatches(dir, out.refId),
                   byUrl |-> findByUrlMatches(dir, url)]
  /\ UNCHANGED <<config, browserVars, pc, loc, today, tempDir, docsDir, ops, save, saved,
                 linkVars>>

NextParts ==
  \/ slugifyCall
  \/ listCachedCall
  \/ extractLinksCall
  \/ validateMarkdownCall
  \/ loadConfigCall
  \/ saveThenFindCall

\* SpecParts: one call of slugify, listCached, extractLinksFromCached,
\* validateMarkdown, loadConfig or saveToTemp and find after the other, each
\* with any input of its set
SpecParts == Init /\ [][NextParts]_vars

----------------------------------------------------------------------------
(* Properties *)

\* the caller holds a lease: it has obtained the Browser and has not yet
\* closed the context it opens on it
HoldsLease(p) == pc[p] \in {"newContext", "goto", "closeContext"}

\* fetchUrl has returned a FetchResult to the caller
HasResult(p) == pc[p] \in {"fetched", "browserClosing", "managerClosing", "closed", "saving"}

OpenProcesses == {b \in 1..MaxLaunches : process[b] = "open"}

FallbackReasons == {"forced", "network_error", "extraction_failed", "quality_too_low"}

\* C1: while a caller holds a lease on a browser process, that process is
\* open: closeBrowser called by another caller does not close it.
C1_LeasedProcessStaysOpen ==
  \A p \in Callers : HoldsLease(p) => process[loc[p].browser] = "open"

\* C2: at most one browser process is open at any time, also when several
\* callers reach getBrowser before the first launch has completed.
C2_AtMostOneProcess == Cardinality(OpenProcesses) <= 1

\* C3: given minScore < jsRetryThreshold, every successful result of fetchUrl
\* carries a score of at least minScore, and a result that is handed to
\* saveToTemp is a successful one.
C3_NothingBelowMinScoreSaved ==
  config.minScore < config.jsRetryThreshold =>
    \A p \in Callers :
      /\ HasResult(p) /\ loc[p].result.success
           => loc[p].result.score >= config.minScore
      /\ pc[p] = "saving" => loc[p].result.success

\* a fallback result that scores exactly minScore is being saved
C3_Witness ==
  /\ config.minScore < config.jsRetryThreshold
  /\ \E p \in Callers :
       /\ pc[p] = "saving"
       /\ loc[p].result.usedPlaywright
       /\ loc[p].result.score = config.minScore

\* C4: a url that fetch does not accept (a scheme other than http and https,
\* or no url at all) makes fetchUrl return a failure with an invalid-URL
\* error, without any network request and without touching the browser.
C4_InvalidUrlRejected ==
  \A p \in Callers :
    pc[p] # "idle" /\ ~fetchAccepts(loc[p].url) =>
      /\ HasResult(p)
      /\ ~loc[p].result.success
      /\ loc[p].result.error = "Invalid URL"

\* C7: when fetchWithBrowser returns, with html or with an error, the context
\* it opened has been closed.
C7_ContextClosedOnReturn ==
  \A p \in Callers : pc[p] = "fetchWithBrowserReturned" => ~loc[p].context

\* C8: a failed launch of the browser never leaves fetchUrl as an exception.
C8_LaunchFailureIsReturned == \A p \in Callers : pc[p] # "thrown"

\* C9: for a marginal simple score fetchUrl returns the fallback result only
\* if the fallback succeeded with a strictly greater score, and otherwise the
\* simple result, which does not say usedPlaywright.
C9_MarginalTakesStrictlyBetter ==
  \A p \in Callers :
    pc[p] = "fetched" /\ loc[p].reason = "quality_marginal" =>
      LET better == /\ loc[p].fallback.success
                    /\ loc[p].fallback.score > loc[p].simple.score
      IN /\ config.minScore <= loc[p].simple.score
         /\ loc[p].simple.score < config.jsRetryThreshold
         /\ better => loc[p].result = loc[p].fallback /\ loc[p].result.usedPlaywright
         /\ ~better => /\ loc[p].result = loc[p].simple
                       /\ ~loc[p].result.usedPlaywright
                       /\ loc[p].result.success

\* a marginal simple result is returned because the fallback scored the same
C9_Witness ==
  \E p \in Callers :
    /\ pc[p] = "fetched"
    /\ loc[p].reason = "quality_marginal"
    /\ loc[p].fallback.success
    /\ loc[p].fallback.score = loc[p].simple.score
    /\ loc[p].result = loc[p].simple

\* C10: for the reasons forced, network_error, extraction_failed and
\* quality_too_low, once the fallback html has been extracted and scored the
\* result is a success exactly when that score is at least minScore, and
\* otherwise a failure that carries the score and a suggestion; a success for
\* these reasons is always the fallback's, never the simple result.
C10_FallbackGatedByMinScore ==
  \A p \in Callers :
    pc[p] = "fetched" /\ loc[p].reason \in FallbackReasons =>
      /\ loc[p].result.success => loc[p].result.usedPlaywright
      /\ loc[p].fallback.score # -1 =>
           /\ loc[p].result.success <=> loc[p].fallback.score >= config.minScore
           /\ loc[p].result.score = loc[p].fallback.score
           /\ loc[p].result.playwrightReason = loc[p].reason
           /\ ~loc[p].result.success =>
                /\ loc[p].result.error = "Content quality too low"
                /\ loc[p].result.suggestion

\* a simple fetch below minScore is followed by a fallback below minScore and
\* the result is the failure with score and suggestion
C10_Witness ==
  \E p \in Callers :
    /\ pc[p] = "fetched"
    /\ loc[p].reason = "quality_too_low"
    /\ loc[p].simple.score < config.minScore
    /\ loc[p].fallback.score # -1
    /\ loc[p].fallback.score < config.minScore
    /\ ~loc[p].result.success
    /\ loc[p].result.suggestion

\* the errors tryPlaywright reports for fetchWithBrowser and for the extractor
BrowserFailed == "Playwright fetch failed"
NoArticle == "Could not extract article content"

\* the stages of a fetchUrl call inside tryPlaywright
InFallback(p) ==
  pc[p] \in {"getBrowserManager", "getBrowser", "launching", "newContext", "goto",
             "closeContext", "fetchWithBrowserReturned", "thrown"}

\* C11 as stated: when the extractor finds no article in the browser-rendered
\* html, fetchUrl returns a failure, whatever the reason of the fallback.
C11_NoArticleAlwaysFails ==
  \A p \in Callers :
    pc[p] = "fetched" /\ loc[p].fallback.error = NoArticle => ~loc[p].result.success

\* C11 as amended: when the extractor finds no article in the browser-rendered
\* html, fetchUrl returns at once, without another attempt: the extractor's
\* failure for the reasons forced, network_error, extraction_failed and
\* quality_too_low, and the remembered simple result for quality_marginal.
C11_NoArticleEndsTheFetch ==
  \A p \in Callers :
    /\ loc[p].fallback # NoResult => HasResult(p)
    /\ pc[p] = "fetched" /\ loc[p].fallback.error = NoArticle =>
         IF loc[p].reason = "quality_marginal"
         THEN loc[p].result = loc[p].simple /\ loc[p].result.success
         ELSE /\ loc[p].reason \in FallbackReasons
              /\ ~loc[p].result.success
              /\ loc[p].result.error = NoArticle
              /\ ~loc[p].result.usedPlaywright

\* the extractor has failed on the fallback html of a marginal page and the
\* simple result is returned
C11_Witness ==
  \E p \in Callers :
    /\ pc[p] = "fetched"
    /\ loc[p].fallback.error = NoArticle
    /\ loc[p].reason = "quality_marginal"
    /\ loc[p].result = loc[p].simple

\* C12: for a marginal simple score, an error of fetchWithBrowser (navigation,
\* timeout) does not fail the fetch: fetchUrl returns the simple result with
\* its score, as a success that does not say usedPlaywright.
C12_MarginalSurvivesBrowserError ==
  \A p \in Callers :
    pc[p] = "fetched" /\ loc[p].reason = "quality_marginal"
      /\ loc[p].fallback.error = BrowserFailed =>
        /\ loc[p].result = loc[p].simple
        /\ loc[p].result.success
        /\ ~loc[p].result.usedPlaywright
        /\ loc[p].result.score >= config.minScore
        /\ loc[p].result.score < config.jsRetryThreshold

\* the fallback of a marginal page has ended in a navigation error
C12_Witness ==
  \E p \in Callers :
    /\ pc[p] = "fetched"
    /\ loc[p].reason = "quality_marginal"
    /\ loc[p].fallback.error = BrowserFailed
    /\ loc[p].result.success

\* C13: an error of the simple fetch or of the extraction of its html is never
\* returned by itself: the call goes on into tryPlaywright with the reason
\* network_error or extraction_failed, and a failed result is returned only
\* when the fallback has failed, and then it is the fallback's failure.
C13_PrimaryFailureEscalates ==
  \A p \in Callers :
    /\ loc[p].reason \in {"network_error", "extraction_failed"} /\ ~HasResult(p)
         => InFallback(p)
    /\ pc[p] = "fetched" /\ ~loc[p].result.success =>
         /\ loc[p].fallback # NoResult
         /\ ~loc[p].fallback.success
         /\ loc[p].result = loc[p].fallback

\* a failure is returned after the simple fetch and the fallback both failed
C13_Witness ==
  \E p \in Callers :
    /\ pc[p] = "fetched"
    /\ loc[p].reason = "network_error"
    /\ ~loc[p].result.success
    /\ loc[p].fallback.error = BrowserFailed

\* C14: a simple result that scores jsRetryThreshold or more is the result of
\* fetchUrl: it does not say usedPlaywright, and the call has not entered
\* tryPlaywright, so no browser was asked for and no fallback result exists.
C14_GoodSimpleResultAccepted ==
  \A p \in Callers :
    loc[p].simple # NoResult /\ loc[p].simple.score >= config.jsRetryThreshold =>
      /\ pc[p] = "fetched"
      /\ loc[p].result = loc[p].simple
      /\ loc[p].result.success
      /\ ~loc[p].result.usedPlaywright
      /\ loc[p].reason = ""
      /\ loc[p].fallback = NoResult
      /\ loc[p].browser = 0

\* a simple result that scores exactly jsRetryThreshold has been accepted
C14_Witness ==
  \E p \in Callers :
    /\ pc[p] = "fetched"
    /\ loc[p].simple.score = config.jsRetryThreshold
    /\ loc[p].result = loc[p].simple
    /\ currentManager = FALSE /\ launched = 0

\* the links whose task runs: fetchUrl or saveToTemp has not settled
InFlight == {k \in 1..MaxLinks : linkTask[k].pc \in {"fetchUrl", "saveToTemp"}}

\* the window of link k: the number of the loop iteration that starts it
windowOf(k) == (k - 1) \div concurrency

C18_FailureStaysInItsTask ==
  /\ \A k \in 1..MaxLinks :
       linkTask[k].fetch \in {"failure", "thrown"} \/ linkTask[k].write = SaveError =>
         /\ linkTask[k].out.status = "failed"
         /\ linksCall.pc \in {"Promise.all", "closeBrowser", "returned"}
  /\ linksCall.pc = "returned" /\ ~linksCall.error =>
       /\ Len(linksCall.results) = Len(linksCall.urls)
       /\ \A k \in 1..Len(linksCall.urls) :
            /\ linkTask[k].pc = "settled"
            /\ linkTask[k].fetch # ""
            /\ linksCall.results[k] = linkTask[k].out
            /\ linksCall.results[k].url = linksCall.urls[k]

\* the call has returned with the first link failed by a rejection, another
\* link of its window failed in the save, and a link of the second window new
C18_Witness ==
  /\ linksCall.pc = "returned"
  /\ Len(linksCall.urls) > concurrency
  /\ linksCall.results[1].error = "thrown"
  /\ linksCall.results[2].error = "save"
  /\ linksCall.results[3].status = "new"
  /\ linksCall.results[concurrency + 1].status = "new"

\* C19 as stated: new only for a successful fetch of a url that findByUrl did
\* not find; cached only for a successful fetch of a stored url with refetch
\* off; failed, with a message, only for a failed fetch or save.
C19_StatusTellsWhatHappened ==
  \A k \in 1..MaxLinks : linkTask[k].pc = "settled" =>
    LET t == linkTask[k]
    IN /\ t.out.status \in {"new", "cached", "failed"}
       /\ t.out.status = "new" => t.fetch = "success" /\ t.existing = NoRef
       /\ t.out.status = "cached" =>
            t.fetch = "success" /\ t.existing # NoRef /\ ~linksCall.refetch
       /\ t.out.status = "failed" =>
            /\ t.fetch # "success" \/ t.write = SaveError
            /\ t.out.error # ""

\* C19 as amended: new only for a successful fetch whose save wrote the file,
\* which is the case when findByUrl did not find the url or refetch was on;
\* cached and failed as stated.
C19_StatusTellsWhatSaveDid ==
  \A k \in 1..MaxLinks : linkTask[k].pc = "settled" =>
    LET t == linkTask[k]
    IN /\ t.out.status \in {"new", "cached", "failed"}
       /\ t.out.status = "new" =>
            /\ t.fetch = "success"
            /\ t.existing = NoRef \/ linksCall.refetch
            /\ t.write.write
            /\ t.write.filepath \in DOMAIN tempDir
       /\ t.out.status = "cached" =>
            /\ t.fetch = "success" /\ t.existing # NoRef /\ ~linksCall.refetch
            /\ t.out.refId = t.existing.refId
            /\ ~t.write.write
       /\ t.out.status = "failed" =>
            /\ t.fetch # "success" \/ t.write = SaveError
            /\ t.out.error # ""

\* a stored url is fetched again with refetch on and reported new
C19_Witness ==
  \E k \in 1..MaxLinks :
    /\ linkTask[k].pc = "settled"
    /\ linkTask[k].existing # NoRef
    /\ linksCall.refetch
    /\ linkTask[k].out.status = "new"

\* C20: fetchLinksFromRef calls closeBrowser at most once, not while one of
\* its tasks runs or a window is still to come, and a call that had links to
\* fetch has called it when it returns.
C20_CloseBrowserOnceAtTheEnd ==
  /\ linksCall.closeBrowserCalls <= 1
  /\ linksCall.closeBrowserCalls = 1 =>
       /\ InFlight = {}
       /\ \A k \in 1..Len(linksCall.urls) : linkTask[k].pc = "settled"
       /\ Len(linksCall.results) = Len(linksCall.urls)
  /\ linksCall.pc \in {"closeBrowser", "returned"} /\ Len(linksCall.urls) > 0 =>
       linksCall.closeBrowserCalls = 1

\* a call with two windows has returned after one closeBrowser
C20_Witness ==
  /\ linksCall.pc = "returned"
  /\ Len(linksCall.urls) > concurrency
  /\ linksCall.closeBrowserCalls = 1

\* C5: the temp directory holds at most one reference per url.
C5_OneReferencePerUrl ==
  \A r1, r2 \in listCached(tempDir) : r1.url = r2.url => r1 = r2

\* C15: a save without refetch of the url of the save before it, also without
\* refetch, whose file is still stored, returns the refId and path of that
\* save with alreadyExists set and writes nothing, whatever its title and body.
C15_SecondSaveReturnsFirst ==
  /\ save # NoCall /\ saved # NoCall
  /\ save.url = saved.url
  /\ ~save.refetch /\ ~saved.refetch
  /\ saved.out.filepath \in DOMAIN tempDir
  => /\ save.out.alreadyExists
     /\ ~save.out.write
     /\ save.out.refId = saved.out.refId
     /\ save.out.filepath = saved.out.filepath

\* C16: the header block of every file saveToTemp has written (always without
\* a query here) holds the five fields saveToTemp writes and no other: one
\* source_url line, and no field that comes out of the url.
C16_UrlAddsNoHeaderLine ==
  \A n \in DOMAIN tempDir :
    LET fm == frontmatter(tempDir[n])
    IN (save.writing => n # save.out.filepath) =>
       /\ hasFrontmatter(tempDir[n])
       /\ Cardinality(fieldLines(fm)) = 5
       /\ Cardinality({i \in fieldLines(fm) : fm[i] = "source_url:"}) = 1
       /\ reference(n, tempDir[n]).query = <<>>

\* C6: a save with refetch on a stored url writes the stored file's path and
\* returns the refId of the stored reference, whatever the new title.
C6_RefetchKeepsRefId ==
  saved # NoCall /\ saved.refetch /\ saved.existing # NoRef =>
    /\ saved.out.filepath = saved.existing.filepath
    /\ saved.out.refId = saved.existing.refId

\* C28: a process that closeBrowser has closed is never the Browser getBrowser
\* hands out: the call of fetchWithBrowser that follows launches a new process,
\* and the Browser it works with is open while it creates its context, loads
\* the page and closes the context.
C28_ClosedBrowserIsRestarted ==
  /\ browserInstance # 0 => process[browserInstance] # "closed"
  /\ \A p \in Callers :
       pc[p] \in {"newContext", "goto", "closeContext"} =>
         process[loc[p].browser] = "open"

\* the first process has been closed and the caller loads a page with a second
C28_Witness ==
  /\ launched = 2
  /\ process[1] = "closed" /\ process[2] = "open"
  /\ pc[1] = "goto" /\ loc[1].browser = 2 /\ loc[1].context

\* C21: a promoteReference call that succeeds leaves no reference of that refId
\* in the list of the temp directory and leaves in the permanent directory a
\* file of the same name whose status field reads permanent and whose other
\* header fields and body are those the temp file had.
C21_PromoteMovesTheFile ==
  [][(last' # last /\ last'.op = "promoteReference" /\ last'.success) =>
       LET f == last'.path
       IN /\ f \in DOMAIN tempDir
          /\ \A r \in listCached(tempDir') : r.refId # last'.refId
          /\ f \notin DOMAIN tempDir'
          /\ f \in DOMAIN docsDir'
          /\ hasFrontmatter(docsDir'[f])
          /\ headerFields(docsDir'[f]) =
               [headerFields(tempDir[f]) EXCEPT !["status:"] = <<"permanent">>]
          /\ headerFields(tempDir[f])["status:"] = <<"temporary">>
          /\ body(docsDir'[f]) = body(tempDir[f])]_vars

\* a promoteReference call has moved a file whose url carries the text of a
\* status line
C21_Witness ==
  /\ last.op = "promoteReference" /\ last.success
  /\ last.path \in DOMAIN docsDir /\ last.path \notin DOMAIN tempDir
  /\ \E i \in 1..Len(docsDir[last.path]) : docsDir[last.path][i] = LS

\* C22: a promoteReference call that fails reports not found and leaves the
\* permanent directory as it was, and the temp directory too when the refId
\* was not stored; this covers a file that is gone when it is read.
C22_FailedPromoteIsNotFound ==
  [][(last' # last /\ last'.op = "promoteReference" /\ ~last'.success) =>
       /\ last'.error = NotFound
       /\ docsDir' = docsDir
       /\ findCachedMatches(tempDir, last'.refId) = {} => tempDir' = tempDir]_vars

\* C23: a deleteCached call of a stored refId removes the file of that
\* reference and no other, changes no other file, and findCached no longer
\* finds the refId; a call of a refId that is not stored fails with not found
\* and changes nothing.
C23_DeleteRemovesThatFileOnly ==
  [][(last' # last /\ last'.op = "deleteCached") =>
       IF findCachedMatches(tempDir, last'.refId) # {}
       THEN /\ last'.success
            /\ last'.path = last'.refId
            /\ DOMAIN tempDir' = DOMAIN tempDir \ {last'.path}
            /\ \A n \in DOMAIN tempDir' : tempDir'[n] = tempDir[n]
            /\ findCachedMatches(tempDir', last'.refId) = {}
            /\ docsDir' = docsDir
       ELSE /\ ~last'.success
            /\ last'.error = NotFound
            /\ tempDir' = tempDir /\ docsDir' = docsDir]_vars

\* a deleteCached call has removed one reference of two, and one has failed
C23_Witness ==
  /\ last.op = "deleteCached" /\ last.success
  /\ last.path \notin DOMAIN tempDir
  /\ \E n \in DOMAIN tempDir : n # last.path /\ hasFrontmatter(tempDir[n])

\* C25: while a saveToTemp call is writing, listCached (and with it findCached
\* and findByUrl) reports what it would report with the file as it was before
\* the write or with the file holding the new text.
C25_ListSeesWholeFiles ==
  save.writing =>
    LET f == save.out.filepath
        before == IF save.had THEN writeFile(tempDir, f, save.previous)
                  ELSE unlinkSync(tempDir, f)
        after == writeFile(tempDir, f, save.out.text)
    IN listCached(tempDir) \in {listCached(before), listCached(after)}

\* C24: for a stored reference, extractLinksFromCached returns one link for
\* every distinct http or https href among the inline links of the body, with
\* the text of the first link that has this href, ordered by where that first
\* link stands in the body; links with another target and an inline link in
\* the title of the header block give no entry.
C24_LinksOfTheBody ==
  last.op = "extractLinksFromCached" /\ last.refId # <<"c">> =>
    LET parts == last.parts
        links == last.result.links
        http == {i \in 1..Len(parts) :
                   Len(parts[i]) = 7 /\ parts[i][5] \in {"http://", "https://"}}
        first == {i \in http :
                    \A j \in http :
                      SubSeq(parts[j], 5, 6) = SubSeq(parts[i], 5, 6) => i <= j}
    IN /\ last.result.error = ""
       /\ last.result.count = Len(links)
       /\ Len(links) = Cardinality(first)
       /\ \A n \in 1..Len(links) :
            \E i \in first :
              /\ links[n] = [text |-> <<parts[i][2]>>, href |-> SubSeq(parts[i], 5, 6)]
              /\ Cardinality({j \in first : j < i}) = n - 1

\* the body [A](https://x)[B](https://x)[C](mailto:z) under a title that holds
\* a link gives the one link A
C24_Witness ==
  /\ last.op = "extractLinksFromCached"
  /\ last.title # <<"A">>
  /\ last.parts = <<Link("A", "https://", "x"), Link("B", "https://", "x"),
                    Link("C", "mailto:", "z")>>
  /\ last.result.links = <<[text |-> <<"A">>, href |-> <<"https://", "x">>]>>

\* C26: the slug slugify makes of a title holds lowercase letters, digits and
\* '-' only, neither starts nor ends with '-', and has at most 60 characters.
C26_SlugIsClean ==
  last.op = "slugify" =>
    /\ \A i \in 1..Len(last.slug) : last.slug[i] \in Lower \cup Digit \cup {"-"}
    /\ last.slug # <<>> => Head(last.slug) # "-" /\ last.slug[Len(last.slug)] # "-"
    /\ Len(last.slug) <= SlugCap

\* C27: listCached reports no error, returns no reference for a file without
\* a complete header block and exactly one, with the fields of the file, for
\* every other file, and no reference stands before one with a later
\* fetchedDate.
C27_ListSkipsAndSorts ==
  last.op = "listCached" =>
    LET refs == last.result.references
        withHeader == {n \in DOMAIN last.dir :
                         LET text == last.dir[n]
                         IN /\ Len(text) >= 2 /\ text[1] = DASH3 /\ text[2] = LF
                            /\ \E k \in 3..(Len(text) - 1) :
                                 text[k] = LF /\ text[k + 1] = DASH3}
    IN /\ last.result.error = ""
       /\ {refs[i].refId : i \in 1..Len(refs)} = withHeader
       /\ Len(refs) = Cardinality(withHeader)
       /\ \A i \in 1..Len(refs) : refs[i] = reference(refs[i].refId, last.dir[refs[i].refId])
       /\ \A i, j \in 1..Len(refs) :
            i < j => DayRank(refs[i].fetchedDate) >= DayRank(refs[j].fetchedDate)

\* readdirSync gave an older file before a newer one and a file without a
\* header block; the list holds the newer one first
C27_Witness ==
  /\ last.op = "listCached"
  /\ Len(last.files) = 3
  /\ ~hasFrontmatter(last.dir[last.files[1]])
  /\ hasFrontmatter(last.dir[last.files[2]]) /\ hasFrontmatter(last.dir[last.files[3]])
  /\ DayRank(reference(last.files[2], last.dir[last.files[2]]).fetchedDate)
       < DayRank(reference(last.files[3], last.dir[last.files[3]]).fetchedDate)
  /\ Len(last.result.references) = 2
  /\ last.result.references[1].refId = last.files[3]

\* C29: the score validateMarkdown returns lies between 0 and 100, and it is 0
\* when the stripped text is empty, whatever else was measured.
C29_ScoreInRange ==
  last.op = "validateMarkdown" =>
    /\ last.result.score \in 0..100
    /\ last.m.contentLength = 0 => last.result.score = 0

\* blank content with more than 10 runs of newlines, more than 100 tags and
\* patterns that match scores 0
C29_Witness ==
  /\ last.op = "validateMarkdown"
  /\ last.m.contentLength = 0
  /\ last.m.newlineRuns > 10 /\ last.m.htmlTagCount > 100 /\ last.m.matching # {}
  /\ last.m.sourceHtmlLength > 10000
  /\ last.result.score = 0

\* C30: a verdict holds at most one boilerplate issue and its score is at most
\* 40 below the score of the same measures without a matching pattern; with a
\* stripped text of 1 to 1999 characters and one or more matching patterns
\* there is exactly one such issue and the 40 points are taken once.
C30_BoilerplateOnce ==
  last.op = "validateMarkdown" =>
    LET labels == {BOILERPLATE_PATTERNS[k] : k \in DOMAIN BOILERPLATE_PATTERNS}
        found == {i \in DOMAIN last.result.issues : last.result.issues[i] \in labels}
        clean == validateMarkdown([last.m EXCEPT !.matching = {}])
    IN /\ Cardinality(found) <= 1
       /\ last.result.score >= clean.score - 40
       /\ last.m.matching # {} /\ last.m.contentLength \in 1..1999 =>
            /\ Cardinality(found) = 1
            /\ clean.score >= 40 => last.result.score = clean.score - 40

\* three patterns match a text of 299 characters: one issue, 100 - 15 - 40
C30_Witness ==
  /\ last.op = "validateMarkdown"
  /\ last.m.matching = {10, 11, 18}
  /\ last.m.contentLength = 299
  /\ last.result.score = 45
  /\ last.result.issues = <<"error page">>

\* C31: a verdict of validateMarkdown without issues has a score of 60 or
\* more and is valid, whatever rules of the warning class matched.
C31_WarningsNeverBlock ==
  last.op = "validateMarkdown" /\ last.result.issues = <<>> =>
    last.result.score >= 60 /\ last.result.isValid

\* C32: every configuration that loadConfig returns has minScore below
\* jsRetryThreshold.
C32_ThresholdsAreOrdered ==
  last.op = "loadConfig" /\ last.result.ok =>
    last.result.quality.minScore < last.result.quality.jsRetryThreshold

\* C37: after saveToTemp(title, url), findCached(refId) and findByUrl(url)
\* return a Reference whose title and url are the strings that were saved,
\* double quotes in the title included.
C37_SavedTitleAndUrlComeBack ==
  last.op = "saveThenFind" =>
    /\ last.found # {} /\ last.byUrl # {}
    /\ \A r \in last.found \cup last.byUrl : r.title = last.title /\ r.url = last.url

\* C39: a response of the simple fetch whose status is not 2xx is handled as a
\* network error: its body is never extracted or scored, and fetchUrl goes on
\* to tryPlaywright with reason network_error.
C39_NonOkIsNetworkError ==
  \A p \in Callers :
    loc[p].status # NoResponse /\ ~responseOk(loc[p].status) =>
      /\ pc[p] # "extract"
      /\ loc[p].simple = NoResult
      /\ loc[p].reason = "network_error"

\* a call whose simple fetch was answered with 404 has returned what
\* tryPlaywright gave
C39_Witness ==
  /\ loc[1].status = 404
  /\ pc[1] = "fetched"
  /\ loc[1].reason = "network_error"
  /\ loc[1].result.success

\* C34: every fetchUrl call makes at most one simple fetch and at most one
\* fallback attempt, and ends in Accept (success) or Fail (an error result).
C34_EndsAfterOneAttemptEach ==
  \A p \in Callers :
    /\ loc[p].simpleFetches <= 1
    /\ loc[p].fallbacks <= 1
    /\ pc[p] \in {"fetched", "thrown"} =>
         loc[p].result.success \/ loc[p].result.error # ""

\* C36: a getBrowser that runs while a closeBrowser has called close() and
\* has not yet finished never hands out the process that is being closed: the
\* Browser the caller receives is an open process.
C36_NoHandleOfClosingProcess ==
  [][\A p \in Callers :
       /\ pc[p] = "getBrowser"
       /\ pc'[p] = "newContext"
       /\ \E q \in Callers : pc[q] = "browserClosing"
       => process[loc'[p].browser] = "open"]_vars

\* C35: two saves of one url that overlap in time leave at most one Reference
\* for that url: with the callers' saves running side by side, the files of
\* tempDir that name the url are never more than one.
C35_OverlappingSavesKeepOne ==
  Cardinality({n \in DOMAIN tempDir :
                 reference(n, tempDir[n]).url = HttpUrl}) <= 1

\* C33: a save that writes the file of a refId which an earlier save with
\* another url has written replaces that file without an error: afterwards the
\* temp directory holds one reference of that refId, it carries the url of the
\* later save, and findByUrl of the earlier url finds nothing.
C33_SlugCollisionOverwrites ==
  [][(/\ save # NoCall /\ save' = NoCall
      /\ save.out.write /\ ~save.refetch
      /\ save.had /\ hasFrontmatter(save.previous)
      /\ reference(save.out.filepath, save.previous).url # save.url) =>
       LET f == save.out.filepath
       IN /\ ~save.out.alreadyExists
          /\ save.out.refId = f
          /\ findCachedMatches(tempDir', f) = {reference(f, save.out.text)}
          /\ reference(f, tempDir'[f]).url = save.url
          /\ reference(f, tempDir'[f]).title = save.title
          /\ findByUrlMatches(tempDir', reference(f, save.previous).url) = {}
          /\ \A n \in DOMAIN tempDir \ {f} : n \in DOMAIN tempDir' /\ tempDir'[n] = tempDir[n]
          /\ DOMAIN tempDir' = DOMAIN tempDir]_vars

\* two saves and nothing else have run; the second, with the url https://b,
\* has written the only file there is: the first one's file, which it replaced
C33_Witness ==
  /\ ops = 2 /\ save = NoCall /\ last = NoReturn
  /\ saved.out.write /\ saved.url = <<"https://", "b">>
  /\ saved.title = <<"a", "!">>
  /\ DOMAIN tempDir = {<<"a">>}
  /\ findByUrlMatches(tempDir, <<"https://", "a">>) = {}
  /\ findByUrlMatches(tempDir, <<"https://", "b">>) # {}

\* C38: a promoteReference call that succeeds changes one reference: the temp
\* directory loses the promoted file and nothing else, the permanent directory
\* gains exactly one file, and every file that was in the permanent directory
\* is as it was.
C38_PromoteChangesOneReference ==
  [][(last' # last /\ last'.op = "promoteReference" /\ last'.success) =>
       LET f == last'.path
       IN /\ DOMAIN tempDir' = DOMAIN tempDir \ {f}
          /\ \A n \in DOMAIN tempDir' : tempDir'[n] = tempDir[n]
          /\ Cardinality(DOMAIN docsDir') = Cardinality(DOMAIN docsDir) + 1
          /\ \A n \in DOMAIN docsDir : n \in DOMAIN docsDir' /\ docsDir'[n] = docsDir[n]]_vars
====
